---- MODULE Spec2Model ----
(***************************************************************************)
(* Fibonacci calculator: API gateway (server/index.js), compute worker     *)
(* (worker/index.js), Redis hash 'values' (result cache), Redis channel    *)
(* 'insert' (event channel) and PostgreSQL table values (ledger).          *)
(*                                                                         *)
(* Three specifications share the variables:                               *)
(*   SpecFib      - the loop of fib(index), one step per iteration;        *)
(*   SpecValidate - the validation chain of POST /values on one input;     *)
(*   Spec         - the request / compute / result pipeline.               *)
(* JavaScript strings are sequences of one-character strings, so that      *)
(* parseInt, parseFloat and toString are computed and not assumed.         *)
(***************************************************************************)
EXTENDS Integers, Sequences, FiniteSets, TLC

\* ------------------------------------------------------------------ bounds
\* Longest string tried as the index field of a POST body.
MaxLen == 4
\* JSON numbers tried as the index field, in tenths: -MaxTenths..MaxTenths.
MaxTenths == 420
\* Events from outside in one behaviour of the pipeline: POST /values requests,
\* messages published on 'insert' by other clients, failing store operations.
MaxEvents == 3

\* Requests the gateway has open at a time.
MaxInflight == 2

\* ------------------------------------------------------- program constants
\* The largest index accepted by the gateway and by the worker.
MaxIndex == 40

\* The sentinel written by the gateway: 'Calculating...'.
Placeholder == <<"C", "a", "l", "c", "u", "l", "a", "t", "i", "n", "g", ".", ".", ".">>

\* ------------------------------------------------------ JavaScript strings
DigitSeq == <<"0", "1", "2", "3", "4", "5", "6", "7", "8", "9">>

DigitChars == {DigitSeq[i] : i \in 1..10}

IsDigit(c) == c \in DigitChars

DigitVal(c) == (CHOOSE i \in 1..10 : DigitSeq[i] = c) - 1

\* StrWhiteSpaceChar, restricted to the characters of the alphabets used here.
IsSpace(c) == c = " "

RECURSIVE Pow10(_)
Pow10(n) == IF n <= 0 THEN 1 ELSE 10 * Pow10(n - 1)

\* Number.prototype.toString of a non-negative integer.
RECURSIVE NatToStr(_)
NatToStr(n) == IF n < 10 THEN <<DigitSeq[n + 1]>>
               ELSE NatToStr(n \div 10) \o <<DigitSeq[(n % 10) + 1]>>

\* Number.prototype.toString of an integer.
IntToStr(n) == IF n < 0 THEN <<"-">> \o NatToStr(0 - n) ELSE NatToStr(n)

\* Number.prototype.toString of the number v / 10.
TenthsToStr(v) ==
    LET a == IF v < 0 THEN 0 - v ELSE v
        whole == NatToStr(a \div 10)
        frac == IF a % 10 = 0 THEN <<>> ELSE <<".", DigitSeq[(a % 10) + 1]>>
    IN  (IF v < 0 THEN <<"-">> ELSE <<>>) \o whole \o frac

\* The first position of s at or after k that holds no white space.
RECURSIVE SkipSpace(_, _)
SkipSpace(s, k) == IF k <= Len(s) /\ IsSpace(s[k]) THEN SkipSpace(s, k + 1) ELSE k

\* The first position of s at or after k that holds no digit.
RECURSIVE SkipDigits(_, _)
SkipDigits(s, k) == IF k <= Len(s) /\ IsDigit(s[k]) THEN SkipDigits(s, k + 1) ELSE k

\* The value of the digits s[k..m-1] (0 when there are none).
RECURSIVE DigitsVal(_, _, _)
DigitsVal(s, k, m) == IF m <= k THEN 0
                      ELSE 10 * DigitsVal(s, k, m - 1) + DigitVal(s[m - 1])

\* A JavaScript number: NaN, or the rational num / den (den a power of ten).
\* -0 is represented as 0: the code compares with <, > and !== and prints with
\* toString, none of which tells -0 from 0.
NaN == [nan |-> TRUE, num |-> 0, den |-> 1]

Num(n, d) == [nan |-> FALSE, num |-> n, den |-> d]

isNaN(x) == x.nan

\* x < n and x > n for an integer n; false when x is NaN.
Less(x, n) == ~x.nan /\ x.num < n * x.den

Greater(x, n) == ~x.nan /\ x.num > n * x.den

\* x !== y on numbers; NaN differs from everything.
StrictNotEqual(x, y) == x.nan \/ y.nan \/ x.num * y.den # y.num * x.den

\* parseInt(s, 10) on a string: white space, a sign, then the longest run of digits.
ParseIntStr(s) ==
    LET k0 == SkipSpace(s, 1)
        signed == k0 <= Len(s) /\ s[k0] \in {"-", "+"}
        neg == signed /\ s[k0] = "-"
        k1 == IF signed THEN k0 + 1 ELSE k0
        k2 == SkipDigits(s, k1)
        mag == DigitsVal(s, k1, k2)
    IN  IF k2 = k1 THEN NaN ELSE Num(IF neg THEN 0 - mag ELSE mag, 1)

\* ---- parseFloat rounds the decimal literal to the nearest IEEE 754 double
\* The binary exponent of the whole number n >= 1: 2^Log2(n) <= n < 2^(Log2(n) + 1).
RECURSIVE Log2(_)
Log2(n) == IF n < 2 THEN 0 ELSE 1 + Log2(n \div 2)

\* The digits after the point of 2^-53, 2^-52, 2^-51, 2^-50, 2^-49 and 2^-48.
HalfUlpTable ==
    <<
       <<0, 0, 0, 0, 0, 0, 0, 0, 0, 0, 0, 0, 0, 0, 0, 1, 1, 1, 0, 2, 2, 3, 0, 2, 4, 6, 2,
         5, 1, 5, 6, 5, 4, 0, 4, 2, 3, 6, 3, 1, 6, 6, 8, 0, 9, 0, 8, 2, 0, 3, 1, 2, 5>>,
       <<0, 0, 0, 0, 0, 0, 0, 0, 0, 0, 0, 0, 0, 0, 0, 2, 2, 2, 0, 4, 4, 6, 0, 4, 9, 2, 5,
         0, 3, 1, 3, 0, 8, 0, 8, 4, 7, 2, 6, 3, 3, 3, 6, 1, 8, 1, 6, 4, 0, 6, 2, 5>>,
       <<0, 0, 0, 0, 0, 0, 0, 0, 0, 0, 0, 0, 0, 0, 0, 4, 4, 4, 0, 8, 9, 2, 0, 9, 8, 5, 0,
         0, 6, 2, 6, 1, 6, 1, 6, 9, 4, 5, 2, 6, 6, 7, 2, 3, 6, 3, 2, 8, 1, 2, 5>>,
       <<0, 0, 0, 0, 0, 0, 0, 0, 0, 0, 0, 0, 0, 0, 0, 8, 8, 8, 1, 7, 8, 4, 1, 9, 7, 0, 0,
         1, 2, 5, 2, 3, 2, 3, 3, 8, 9, 0, 5, 3, 3, 4, 4, 7, 2, 6, 5, 6, 2, 5>>,
       <<0, 0, 0, 0, 0, 0, 0, 0, 0, 0, 0, 0, 0, 0, 1, 7, 7, 6, 3, 5, 6, 8, 3, 9, 4, 0, 0,
         2, 5, 0, 4, 6, 4, 6, 7, 7, 8, 1, 0, 6, 6, 8, 9, 4, 5, 3, 1, 2, 5>>,
       <<0, 0, 0, 0, 0, 0, 0, 0, 0, 0, 0, 0, 0, 0, 3, 5, 5, 2, 7, 1, 3, 6, 7, 8, 8, 0, 0,
         5, 0, 0, 9, 2, 9, 3, 5, 5, 6, 2, 1, 3, 3, 7, 8, 9, 0, 6, 2, 5>>
    >>

\* Half the distance from the double n to the next double above it, for a whole
\* number n in 1..63: a double has 53 significant bits. (The handler calls
\* parseFloat only after parseInt gave a value in 0..40.)
HalfUlp(n) == HalfUlpTable[Log2(n) + 1]

\* 0.a <= 0.b from digit k on, for the digit characters a and the digits b after
\* the point.
RECURSIVE FracLeq(_, _, _)
FracLeq(a, b, k) ==
    IF k > Len(a) /\ k > Len(b) THEN TRUE
    ELSE LET x == IF k <= Len(a) THEN DigitVal(a[k]) ELSE 0
             y == IF k <= Len(b) THEN b[k] ELSE 0
         IN  IF x < y THEN TRUE ELSE IF x > y THEN FALSE ELSE FracLeq(a, b, k + 1)

\* A non-zero fraction of at most this many digits is more than half an ulp away
\* from the whole numbers below 64 (10^-6 > 2^-48).
ExactFracDigits == 6

\* The literal n.fd (n >= 1 whole, fd its fraction digits) is nearest to the double
\* n: its fraction is at most half an ulp (a tie goes to the even mantissa, n's).
RoundsToWhole(n, fd) ==
    /\ n >= 1 /\ Log2(n) < Len(HalfUlpTable)
    /\ Len(fd) > ExactFracDigits
    /\ FracLeq(fd, HalfUlp(n), 1)

\* parseFloat(s) on a string: white space, a sign, then the longest prefix that is
\* a decimal literal: digits [. digits] or . digits, then e [sign] digits. The
\* value is the double nearest to the literal: a literal within half an ulp of a
\* whole number is that whole number. A value that is no whole number is kept
\* exactly up to ExactFracDigits fraction digits; of a longer fraction the
\* first ExactFracDigits digits are kept, the last of them raised to 1 when only
\* later digits are non-zero (the handler compares the value with whole numbers
\* only).
ParseFloatStr(s) ==
    LET k0 == SkipSpace(s, 1)
        signed == k0 <= Len(s) /\ s[k0] \in {"-", "+"}
        neg == signed /\ s[k0] = "-"
        k1 == IF signed THEN k0 + 1 ELSE k0
        k2 == SkipDigits(s, k1)
        dot == k2 <= Len(s) /\ s[k2] = "."
        k3 == IF dot THEN SkipDigits(s, k2 + 1) ELSE k2
        nint == k2 - k1
        nfrac == IF dot THEN k3 - (k2 + 1) ELSE 0
        whole == DigitsVal(s, k1, k2)
        fd == IF dot THEN SubSeq(s, k2 + 1, k3 - 1) ELSE <<>>
        long == nfrac > ExactFracDigits
        kept == IF long THEN ExactFracDigits ELSE nfrac
        fval == IF dot THEN DigitsVal(s, k2 + 1, k2 + 1 + kept) ELSE 0
        sticky == long /\ fval = 0 /\ \E i \in 1..nfrac : fd[i] # "0"
        mant == whole * Pow10(kept) + (IF sticky THEN 1 ELSE fval)
        hasE == k3 <= Len(s) /\ s[k3] \in {"e", "E"}
        esigned == hasE /\ k3 + 1 <= Len(s) /\ s[k3 + 1] \in {"-", "+"}
        k4 == IF esigned THEN k3 + 2 ELSE k3 + 1
        k5 == IF hasE THEN SkipDigits(s, k4) ELSE k4
        expo == IF hasE /\ k5 > k4 THEN DigitsVal(s, k4, k5) ELSE 0
        eneg == esigned /\ s[k3 + 1] = "-"
        n0 == IF eneg THEN mant ELSE mant * Pow10(expo)
        d0 == IF eneg THEN Pow10(kept + expo) ELSE Pow10(kept)
    IN  IF nint + nfrac = 0 THEN NaN
        ELSE IF expo = 0 /\ RoundsToWhole(whole, fd)
             THEN Num(IF neg THEN 0 - whole ELSE whole, 1)
        ELSE Num(IF neg THEN 0 - n0 ELSE n0, d0)

\* ------------------------------------------------------------ JSON values
\* req.body.index: undefined (field absent), null, a boolean, a number (v tenths),
\* a string (s), an array of numbers (a, in tenths) or an object.
JUndefined == [t |-> "undefined", s |-> <<>>, v |-> 0, a |-> <<>>]

JNull == [t |-> "null", s |-> <<>>, v |-> 0, a |-> <<>>]

JTrue == [t |-> "boolean", s |-> <<>>, v |-> 1, a |-> <<>>]

JFalse == [t |-> "boolean", s |-> <<>>, v |-> 0, a |-> <<>>]

JObject == [t |-> "object", s |-> <<>>, v |-> 0, a |-> <<>>]

JStr(str) == [t |-> "string", s |-> str, v |-> 0, a |-> <<>>]

JNum(tenths) == [t |-> "number", s |-> <<>>, v |-> tenths, a |-> <<>>]

JArr(elems) == [t |-> "array", s |-> <<>>, v |-> 0, a |-> elems]

\* Array.prototype.join(',') of an array of numbers.
RECURSIVE JoinTenths(_)
JoinTenths(a) == IF a = <<>> THEN <<>>
                 ELSE IF Len(a) = 1 THEN TenthsToStr(a[1])
                 ELSE TenthsToStr(a[1]) \o <<",">> \o JoinTenths(Tail(a))

\* StringOf(x), the conversion parseInt and parseFloat apply to their argument.
StringOf(x) ==
    CASE x.t = "undefined" -> <<"u", "n", "d", "e", "f", "i", "n", "e", "d">>
      [] x.t = "null" -> <<"n", "u", "l", "l">>
      [] x.t = "boolean" -> IF x.v = 1 THEN <<"t", "r", "u", "e">>
                            ELSE <<"f", "a", "l", "s", "e">>
      [] x.t = "number" -> TenthsToStr(x.v)
      [] x.t = "string" -> x.s
      [] x.t = "array" -> JoinTenths(x.a)
      [] OTHER -> <<"[", "o", "b", "j", "e", "c", "t", " ", "O", "b", "j", "e", "c", "t", "]">>

parseInt(x) == ParseIntStr(StringOf(x))

parseFloat(x) == ParseFloatStr(StringOf(x))

\* ------------------------------------------------------------- the worker's fib
\* let prev = 1; let current = 1;
\* let prev = 1; let current = 2;
FibSeed_m == [prev |-> 1, current |-> 2]

FibSeed == [prev |-> 1, current |-> 1]

\* const next = prev + current; prev = current; current = next;
FibBody(st) == [prev |-> st.current, current |-> st.prev + st.current]

\* The condition of the for loop.
FibContinue_m(i, index) == i < index

FibContinue(i, index) == i <= index

\* if (index < 2) return 1;
FibBase(index) == index < 2

RECURSIVE FibLoop(_, _, _)
FibLoop(i, st, index) ==
    IF FibContinue(i, index)
    THEN CHOOSE r \in {FibLoop(i + 1, next, index) : next \in {FibBody(st)}} : TRUE
    ELSE st.current

fib(index) == IF FibBase(index) THEN 1 ELSE FibLoop(2, FibSeed, index)

\* ------------------------------------------------- POST /values: validation
\* The checks of the handler, in the order of its if statements.
ValidationOrder_m == <<"missing", "malformed", "integer", "negative", "high">>

ValidationOrder == <<"missing", "malformed", "negative", "high", "integer">>

\* The conditions with `!index` as the first: every falsy value counts as missing.
CheckFails_m(name, index) ==
    CASE name = "missing" -> \/ index.t \in {"undefined", "null"}
                             \/ index.t = "string" /\ index.s = <<>>
                             \/ index.t \in {"number", "boolean"} /\ index.v = 0
      [] name = "malformed" -> isNaN(parseInt(index))
      [] name = "negative" -> Less(parseInt(index), 0)
      [] name = "high" -> Greater(parseInt(index), MaxIndex)
      [] OTHER -> StrictNotEqual(parseInt(index), parseFloat(index))

\* The condition of each if statement, on the raw index field.
CheckFails(name, index) ==
    CASE name = "missing" -> \/ index.t = "undefined"
                             \/ index.t = "null"
                             \/ index.t = "string" /\ index.s = <<>>
      [] name = "malformed" -> isNaN(parseInt(index))
      [] name = "negative" -> Less(parseInt(index), 0)
      [] name = "high" -> Greater(parseInt(index), MaxIndex)
      [] OTHER -> StrictNotEqual(parseInt(index), parseFloat(index))

\* The responses with one status for both range checks: 400.
Reply_m(name) ==
    CASE name = "missing" -> [status |-> 400, error |-> "Index is required"]
      [] name = "malformed" -> [status |-> 400, error |-> "Index must be a valid number"]
      [] name = "negative" -> [status |-> 400, error |-> "Index must be non-negative"]
      [] name = "high" -> [status |-> 400, error |-> "Index too high (maximum: 40)"]
      [] OTHER -> [status |-> 400, error |-> "Index must be an integer"]

\* The responses with one status for both range checks: 422.
Reply_n(name) ==
    CASE name = "missing" -> [status |-> 400, error |-> "Index is required"]
      [] name = "malformed" -> [status |-> 400, error |-> "Index must be a valid number"]
      [] name = "negative" -> [status |-> 422, error |-> "Index must be non-negative"]
      [] name = "high" -> [status |-> 422, error |-> "Index too high (maximum: 40)"]
      [] OTHER -> [status |-> 400, error |-> "Index must be an integer"]

\* The response of each failing check.
Reply(name) ==
    CASE name = "missing" -> [status |-> 400, error |-> "Index is required"]
      [] name = "malformed" -> [status |-> 400, error |-> "Index must be a valid number"]
      [] name = "negative" -> [status |-> 400, error |-> "Index must be non-negative"]
      [] name = "high" -> [status |-> 422, error |-> "Index too high (maximum: 40)"]
      [] OTHER -> [status |-> 400, error |-> "Index must be an integer"]

\* No response yet, or none from validation.
NoReply == [status |-> 0, error |-> ""]

\* The whole chain: the response of the first failing check, NoReply when none fails.
RECURSIVE ValidateFrom(_, _)
ValidateFrom(index, k) ==
    IF k > Len(ValidationOrder) THEN NoReply
    ELSE IF CheckFails(ValidationOrder[k], index) THEN Reply(ValidationOrder[k])
    ELSE ValidateFrom(index, k + 1)

Validate(index) == ValidateFrom(index, 1)

\* ------------------------------------------------------------------ inputs
Alphabet == {"0", "1", "4", "5", "-", ".", "a", " "}

Strings(n) == UNION {[1..m -> Alphabet] : m \in 0..n}

\* n zeros.
Zeros(n) == [i \in 1..n |-> "0"]

\* Decimal literals with more digits than a double holds: 1.00000000000000001,
\* 1.0000000000000003, 40.000000000000003 and 40.000000000000004.
LongLiterals ==
    {<<"1", ".">> \o Zeros(16) \o <<"1">>,
     <<"1", ".">> \o Zeros(15) \o <<"3">>,
     <<"4", "0", ".">> \o Zeros(14) \o <<"3">>,
     <<"4", "0", ".">> \o Zeros(14) \o <<"4">>}

\* The index fields tried against the validation chain.
ValInputs ==
    {JUndefined, JNull, JTrue, JFalse, JObject}
    \cup {JStr(s) : s \in Strings(MaxLen)}
    \cup {JStr(s) : s \in LongLiterals}
    \cup {JNum(v) : v \in (0 - MaxTenths)..MaxTenths}
    \cup {JArr(<<>>), JArr(<<50>>), JArr(<<10, 20>>), JArr(<<35>>)}

\* ----------------------------------------------------------------- state
VARIABLES
    \* the loop of fib
    findex, fprev, fcurrent, fi, fpc, fresult,
    \* the validation chain of one POST /values
    vindex, vk, vevals, vreply, vpc,
    \* Redis hash 'values': key -> value, both strings
    cache,
    \* PostgreSQL table values: its rows in insertion order
    ledger,
    \* messages of channel 'insert' delivered to the subscriber and not yet handled
    channel,
    \* the worker: its process; the HSET commands its handlers await; the last
    \* line of its console (with `after`, the value of wabsorbed when the message
    \* it is about arrived); the number of messages whose handling it gave up
    worker, wpending, wlast, wabsorbed,
    \* the gateway's POST /values handler per client: position, parsedIndex,
    \* side effects performed, response
    pc, idx, effects, resp,
    \* the response to the client's GET /values/current
    got,
    \* events from outside so far
    nevents

VARIABLES
    \* the gateway and the worker as processes: "up" or the way they exited
    proc,
    \* each process's Redis connection and the retries its reconnect strategy
    \* has been asked about since the connection was lost
    conn, retries,
    \* initializeDatabase() of the gateway
    dbinit,
    \* the HTTP server of the gateway: accepting connections; requests open
    listening, inflight,
    \* gracefulShutdown of the gateway: calls so far, the 30 s timer, the
    \* position of the callback of server.close
    closers, timer, release,
    \* messages the worker handled; events from outside so far
    handled, pevents

VARIABLES
    \* one request at the cors middleware: process.env.ALLOWED_ORIGINS, the
    \* Origin header, the position of the request
    cenv, corigin, cpc

VARIABLES
    \* the worker's signal handler: "none", the release it awaits, or the exit
    wstop,
    \* the form of the client: the text of its input, its error message, the
    \* body it posted, the position of handleSubmit
    formIndex, formError, formPosted, formPc

fibVars == <<findex, fprev, fcurrent, fi, fpc, fresult>>

valVars == <<vindex, vk, vevals, vreply, vpc>>

storeVars == <<cache, ledger, channel>>

workerVars == <<worker, wpending, wlast, wabsorbed>>

gatewayVars == <<pc, idx, effects, resp, got>>

countVars == <<nevents>>

pipeVars == <<storeVars, workerVars, gatewayVars, countVars>>

procVars == <<proc, conn, retries, dbinit, listening, inflight, closers, timer, release,
              handled, pevents>>

corsVars == <<cenv, corigin, cpc>>

stopVars == <<wstop>>

formVars == <<formIndex, formError, formPosted, formPc>>

sideVars == <<procVars, corsVars, stopVars, formVars>>

vars == <<fibVars, valVars, pipeVars, sideVars>>

\* ---------------------------------------------------------- fib, stepwise
FibIdle ==
    /\ findex = 0 /\ fprev = 0 /\ fcurrent = 0 /\ fi = 0 /\ fresult = 0
    /\ fpc = "idle"

FibInit ==
    /\ findex \in 0..MaxIndex
    /\ fprev = 0 /\ fcurrent = 0 /\ fi = 0 /\ fresult = 0
    /\ fpc = "call"

\* if (index < 2) return 1;
FibReturnBase ==
    /\ fpc = "call" /\ FibBase(findex)
    /\ fresult' = 1 /\ fpc' = "returned"
    /\ UNCHANGED <<findex, fprev, fcurrent, fi>>

\* let prev = 1; let current = 1; let i = 2
FibEnterLoop ==
    /\ fpc = "call" /\ ~FibBase(findex)
    /\ fprev' = FibSeed.prev /\ fcurrent' = FibSeed.current /\ fi' = 2
    /\ fpc' = "loop"
    /\ UNCHANGED <<findex, fresult>>

\* One iteration of the for loop.
FibIterate ==
    /\ fpc = "loop" /\ FibContinue(fi, findex)
    /\ LET st == FibBody([prev |-> fprev, current |-> fcurrent])
       IN  fprev' = st.prev /\ fcurrent' = st.current
    /\ fi' = fi + 1
    /\ UNCHANGED <<findex, fpc, fresult>>

\* return current;
FibReturn ==
    /\ fpc = "loop" /\ ~FibContinue(fi, findex)
    /\ fresult' = fcurrent /\ fpc' = "returned"
    /\ UNCHANGED <<findex, fprev, fcurrent, fi>>

\* ------------------------------------------------ validation, stepwise
ValIdle ==
    /\ vindex = JUndefined /\ vk = 0 /\ vevals = <<>> /\ vreply = NoReply
    /\ vpc = "idle"

ValInit ==
    /\ vindex \in ValInputs
    /\ vk = 1 /\ vevals = <<>> /\ vreply = NoReply
    /\ vpc = "checking"

\* Evaluate the if statement at position vk, which is the check `name`.
VEval(name) ==
    /\ vpc = "checking" /\ vk <= Len(ValidationOrder) /\ ValidationOrder[vk] = name
    /\ vevals' = Append(vevals, name)
    /\ IF CheckFails(name, vindex)
       THEN vreply' = Reply(name) /\ vpc' = "rejected" /\ vk' = vk
       ELSE vk' = vk + 1 /\ UNCHANGED <<vreply, vpc>>
    /\ UNCHANGED vindex

VCheckMissing == VEval("missing")

VCheckMalformed == VEval("malformed")

VCheckNegative == VEval("negative")

VCheckHigh == VEval("high")

VCheckInteger == VEval("integer")

\* Every check passed: the handler enters its try block.
VAccept ==
    /\ vpc = "checking" /\ vk > Len(ValidationOrder)
    /\ vpc' = "accepted"
    /\ UNCHANGED <<vindex, vk, vevals, vreply>>

\* ------------------------------------------------------------- the stores
\* HSETNX values key value: creates the field, never overwrites it.
HSet_m(c, key, value) ==
    [k \in DOMAIN c \cup {key} |-> IF k \in DOMAIN c THEN c[k] ELSE value]

\* HSET values key value: creates the field or overwrites it.
HSet(c, key, value) == [k \in DOMAIN c \cup {key} |-> IF k = key THEN value ELSE c[k]]

\* HGETALL values.
HGetAll(c) == c

\* What `await redisClient.hGetAll('values')` resolves to: the mapping; for a hash
\* that does not exist, the empty mapping or, with a client that reports no
\* value, null.
HGetAllReplies(c) ==
    {[null |-> FALSE, map |-> HGetAll(c)]}
    \cup (IF c = <<>> THEN {[null |-> TRUE, map |-> <<>>]} ELSE {})

\* The handler sending what it read as it is.
OrEmpty_m(values) == values

\* values || {}
OrEmpty(values) == IF values.null THEN [null |-> FALSE, map |-> <<>>] ELSE values

\* The sequence l without its element at position m.
RemoveAt(l, m) == SubSeq(l, 1, m - 1) \o SubSeq(l, m + 1, Len(l))

\* SELECT * FROM values: the rows in the order they were inserted.
OrderByNumber_m(l) == l

\* SELECT * FROM values ORDER BY number ASC
RECURSIVE OrderByNumber(_)
OrderByNumber(l) ==
    IF l = <<>> THEN <<>>
    ELSE LET m == CHOOSE i \in DOMAIN l : \A j \in DOMAIN l : l[i].number <= l[j].number
         IN  <<l[m]>> \o OrderByNumber(RemoveAt(l, m))

\* INSERT after emptying the table.
InsertReplace_m(l, n) == <<[number |-> n]>>

LedgerNumbers(l) == {l[i].number : i \in DOMAIN l}

\* INSERT INTO values(number) VALUES($1), without the conflict clause and without
\* the UNIQUE constraint.
InsertIfAbsent_m(l, n) == Append(l, [number |-> n])

\* INSERT INTO values(number) VALUES($1) ON CONFLICT (number) DO NOTHING, on a
\* table whose column number is UNIQUE.
InsertIfAbsent(l, n) == IF n \in LedgerNumbers(l) THEN l ELSE Append(l, [number |-> n])

\* A channel that delivers to nobody.
Publish_d(ch, body, from) == ch

\* A channel that hands the newest message to the subscriber first.
Publish_l(ch, body, from) ==
    IF worker = "subscribed" THEN <<[body |-> body, from |-> from]>> \o ch ELSE ch

\* PUBLISH insert message: delivered to the subscribers connected now, kept for
\* nobody else. `from` records the publisher for the properties only.
Publish(ch, body, from) ==
    IF worker = "subscribed" THEN Append(ch, [body |-> body, from |-> from]) ELSE ch

\* ------------------------------------------------------------ the gateway
Clients == {"c1", "c2"}

\* The index fields the clients of the pipeline send.
PostInputs == {JNum(100), JStr(<<"2", ".", "0">>), JNum(-10), JStr(<<"3", ".", "5">>)}

\* The try block with the ledger insert first.
PostSeq_i == <<"insert", "hset", "publish", "respond">>

\* The statements of the try block, in program order.
PostSeq_m == <<"publish", "hset", "insert", "respond">>

PostSeq == <<"hset", "publish", "insert", "respond">>

\* The statement that follows `step`; "answered" after the last.
PostAfter(step) ==
    LET k == CHOOSE j \in 1..Len(PostSeq) : PostSeq[j] = step
    IN  IF k = Len(PostSeq) THEN "answered" ELSE PostSeq[k + 1]

NoResp == [status |-> 0, error |-> "", working |-> FALSE, index |-> -1]

\* The response to a GET: of /values/current the body (null or a mapping), of
\* /values/all the rows.
NoGot == [status |-> 0, null |-> FALSE, body |-> <<>>, rows |-> <<>>]

\* res.status(4xx).json({ error }) of a failed check.
Rejection(v) == [status |-> v.status, error |-> v.error, working |-> FALSE, index |-> -1]

\* res.status(201).json({ working: true, index: parsedIndex, ... })
Created(n) == [status |-> 201, error |-> "", working |-> TRUE, index |-> n]

\* The catch block of the handler.
ServerError ==
    [status |-> 500, error |-> "Internal server error while processing request",
     working |-> FALSE, index |-> -1]

\* return res.status(...).json(...) of a failed check: nothing else happens.
PostReject_m(c, v) ==
    /\ resp' = [resp EXCEPT ![c] = Rejection(v)]
    /\ pc' = [pc EXCEPT ![c] = "answered"]
    /\ cache' = HSet(cache, <<"-", "1">>, Placeholder)
    /\ UNCHANGED <<idx, effects, got, ledger, channel>>

PostReject(c, v) ==
    /\ resp' = [resp EXCEPT ![c] = Rejection(v)]
    /\ pc' = [pc EXCEPT ![c] = "answered"]
    /\ UNCHANGED <<idx, effects, got, storeVars>>

\* POST /values arrives: the synchronous part of the handler, up to the first await.
PostReceive(c, index) ==
    /\ pc[c] = "idle" /\ nevents < MaxEvents
    /\ nevents' = nevents + 1
    /\ LET v == Validate(index)
       IN  IF v # NoReply THEN PostReject(c, v)
           ELSE /\ idx' = [idx EXCEPT ![c] = parseInt(index).num]
                /\ pc' = [pc EXCEPT ![c] = PostSeq[1]]
                /\ UNCHANGED <<effects, resp, got, storeVars>>
    /\ UNCHANGED workerVars

\* The position and the log of side effects after `step` succeeded.
PostAdvance(c, step) ==
    /\ pc' = [pc EXCEPT ![c] = PostAfter(step)]
    /\ effects' = [effects EXCEPT ![c] = Append(@, step)]

\* A catch block that undoes the placeholder write before it answers 500.
PostFail_m(c, step) ==
    /\ pc[c] = step /\ nevents < MaxEvents
    /\ nevents' = nevents + 1
    /\ pc' = [pc EXCEPT ![c] = "answered"]
    /\ resp' = [resp EXCEPT ![c] = ServerError]
    /\ cache' = [k \in DOMAIN cache \ {IntToStr(idx[c])} |-> cache[k]]
    /\ UNCHANGED <<idx, effects, got, ledger, channel, workerVars>>

\* A store operation of the try block throws: the catch block answers 500.
PostFail(c, step) ==
    /\ pc[c] = step /\ nevents < MaxEvents
    /\ nevents' = nevents + 1
    /\ pc' = [pc EXCEPT ![c] = "answered"]
    /\ resp' = [resp EXCEPT ![c] = ServerError]
    /\ UNCHANGED <<idx, effects, got, storeVars, workerVars>>

\* A placeholder write under the index padded with a zero.
PlaceholderWrite_z(c, n) == HSet(c, <<"0">> \o IntToStr(n), Placeholder)

\* The handler without its placeholder write.
PlaceholderWrite_m(c, n) == c

\* redisClient.hSet('values', parsedIndex.toString(), 'Calculating...')
PlaceholderWrite(c, n) == HSet(c, IntToStr(n), Placeholder)

\* await redisClient.hSet('values', parsedIndex.toString(), 'Calculating...')
PostHSet(c) ==
    /\ pc[c] = "hset"
    /\ cache' = PlaceholderWrite(cache, idx[c])
    /\ PostAdvance(c, "hset")
    /\ UNCHANGED <<ledger, channel, idx, resp, got, workerVars, countVars>>

PostHSetFail(c) == PostFail(c, "hset")

\* await redisPublisher.publish('insert', parsedIndex.toString())
PostPublish(c) ==
    /\ pc[c] = "publish"
    /\ channel' = Publish(channel, IntToStr(idx[c]), "gateway")
    /\ PostAdvance(c, "publish")
    /\ UNCHANGED <<cache, ledger, idx, resp, got, workerVars, countVars>>

\* A publish whose error is logged and otherwise ignored: the handler goes on.
PostPublishFail_m(c) ==
    /\ pc[c] = "publish" /\ nevents < MaxEvents
    /\ nevents' = nevents + 1
    /\ pc' = [pc EXCEPT ![c] = PostAfter("publish")]
    /\ UNCHANGED <<idx, effects, resp, got, storeVars, workerVars>>

\* redisPublisher.publish throws: the catch block answers 500.
PostPublishFail(c) == PostFail(c, "publish")

\* await pgClient.query('INSERT INTO values(number) ... DO NOTHING', [parsedIndex])
PostInsert(c) ==
    /\ pc[c] = "insert"
    /\ ledger' = InsertIfAbsent(ledger, idx[c])
    /\ PostAdvance(c, "insert")
    /\ UNCHANGED <<cache, channel, idx, resp, got, workerVars, countVars>>

PostInsertFail(c) == PostFail(c, "insert")

\* res.status(201).json({ working: true, index: parsedIndex, ... })
PostRespond(c) ==
    /\ pc[c] = "respond"
    /\ resp' = [resp EXCEPT ![c] = Created(idx[c])]
    /\ pc' = [pc EXCEPT ![c] = PostAfter("respond")]
    /\ UNCHANGED <<idx, effects, got, storeVars, workerVars, countVars>>

\* A client issues a GET right after its POST /values was answered 201, or as
\* a request of its own, counted as an event.
GetArrives(c) ==
    \/ pc[c] = "answered" /\ resp[c].status = 201 /\ UNCHANGED nevents
    \/ pc[c] = "idle" /\ nevents < MaxEvents /\ nevents' = nevents + 1

\* A GET whose store operation throws.
GetFails(c) ==
    /\ \/ pc[c] = "answered" /\ resp[c].status = 201
       \/ pc[c] = "idle"
    /\ nevents < MaxEvents
    /\ nevents' = nevents + 1

\* GET /values/current: res.status(200).json(values || {})
GetCurrent(c) ==
    /\ GetArrives(c)
    /\ \E values \in HGetAllReplies(cache) :
          got' = [got EXCEPT ![c] = [status |-> 200, null |-> OrEmpty(values).null,
                                     body |-> OrEmpty(values).map, rows |-> <<>>]]
    /\ pc' = [pc EXCEPT ![c] = "read"]
    /\ UNCHANGED <<idx, effects, resp, storeVars, workerVars>>

\* GET /values/current whose hGetAll throws: the catch block answers 500.
GetCurrentFail(c) ==
    /\ GetFails(c)
    /\ got' = [got EXCEPT ![c] = [status |-> 500, null |-> FALSE, body |-> <<>>,
                                 rows |-> <<>>]]
    /\ pc' = [pc EXCEPT ![c] = "read"]
    /\ UNCHANGED <<idx, effects, resp, storeVars, workerVars>>

\* GET /values/all: res.status(200).json(values.rows)
GetAll(c) ==
    /\ GetArrives(c)
    /\ got' = [got EXCEPT ![c] = [status |-> 200, null |-> FALSE, body |-> <<>>,
                                 rows |-> OrderByNumber(ledger)]]
    /\ pc' = [pc EXCEPT ![c] = "listed"]
    /\ UNCHANGED <<idx, effects, resp, storeVars, workerVars>>

\* A catch block that answers a failed query with 200 and no rows.
GetAllFail_m(c) ==
    /\ GetFails(c)
    /\ got' = [got EXCEPT ![c] = [status |-> 200, null |-> FALSE, body |-> <<>>,
                                 rows |-> <<>>]]
    /\ pc' = [pc EXCEPT ![c] = "listed"]
    /\ UNCHANGED <<idx, effects, resp, storeVars, workerVars>>

\* GET /values/all whose query throws: the catch block answers 500.
GetAllFail(c) ==
    /\ GetFails(c)
    /\ got' = [got EXCEPT ![c] = [status |-> 500, null |-> FALSE, body |-> <<>>,
                                 rows |-> <<>>]]
    /\ pc' = [pc EXCEPT ![c] = "listed"]
    /\ UNCHANGED <<idx, effects, resp, storeVars, workerVars>>

\* The client is done with the responses it holds.
ClientReset(c) ==
    /\ pc[c] \in {"answered", "read", "listed"}
    /\ pc' = [pc EXCEPT ![c] = "idle"]
    /\ idx' = [idx EXCEPT ![c] = -1]
    /\ effects' = [effects EXCEPT ![c] = <<>>]
    /\ resp' = [resp EXCEPT ![c] = NoResp]
    /\ got' = [got EXCEPT ![c] = NoGot]
    /\ UNCHANGED <<storeVars, workerVars, countVars>>

\* -------------------------------------------------------------- the worker
\* The message bodies other Redis clients publish on 'insert'.
ExtMessages == {<<"a">>, <<"4", "1">>, <<"2", "a">>}

\* A Redis client other than the gateway publishes on 'insert'.
ExternalPublish(body) ==
    /\ nevents < MaxEvents
    /\ nevents' = nevents + 1
    /\ channel' = Publish(channel, body, "other")
    /\ UNCHANGED <<cache, ledger, workerVars, gatewayVars>>

\* await sub.subscribe('insert', handler)
WorkerSubscribe ==
    /\ worker = "connecting"
    /\ worker' = "subscribed"
    /\ UNCHANGED <<wpending, wlast, wabsorbed, storeVars, gatewayVars, countVars>>

\* A check with a lower ceiling than the gateway's.
WorkerValid_s(index) == ~(isNaN(index) \/ Less(index, 0) \/ Greater(index, 9))

\* A check that also turns away the index the worker computed last.
WorkerValid_d(index) ==
    /\ ~(isNaN(index) \/ Less(index, 0) \/ Greater(index, MaxIndex))
    /\ ~(wlast.line = "done" /\ wlast.key = IntToStr(index.num))

\* The negation of: isNaN(index) || index < 0 || index > 40
WorkerValid_m(index) == ~(isNaN(index) \/ Less(index, 0))

WorkerValid(index) == ~(isNaN(index) \/ Less(index, 0) \/ Greater(index, MaxIndex))

\* The HSET the handler sends, with the result of the next index.
WorkerCommand_n(index) == [key |-> IntToStr(index), value |-> IntToStr(fib(index + 1))]

\* The HSET the handler sends, with the index in place of the result.
WorkerCommand_m(index) == [key |-> IntToStr(index), value |-> IntToStr(index)]

\* const result = fib(index); hSet('values', index.toString(), result.toString())
WorkerCommand(index) == [key |-> IntToStr(index), value |-> IntToStr(fib(index))]

\* The handler of a message, up to its await: parse, validate, compute, send HSET.
WorkerReceive ==
    /\ worker = "subscribed" /\ channel # <<>>
    /\ channel' = Tail(channel)
    /\ \E index \in {ParseIntStr(Head(channel).body)} :
          IF ~WorkerValid(index)
          THEN /\ wlast' = [line |-> "invalid", key |-> <<>>, after |-> wabsorbed]
               /\ wabsorbed' = wabsorbed + 1
               /\ UNCHANGED wpending
          ELSE \E command \in {WorkerCommand(index.num)} :
                  /\ wlast' = [line |-> "calculating", key |-> IntToStr(index.num),
                               after |-> wabsorbed]
                  /\ wpending' = Append(wpending, [key |-> command.key,
                                                   value |-> command.value,
                                                   after |-> wabsorbed])
                  /\ UNCHANGED wabsorbed
    /\ UNCHANGED <<worker, cache, ledger, gatewayVars, countVars>>

\* await redisClient.hSet('values', index.toString(), result.toString()) completes.
WorkerHSet ==
    /\ worker = "subscribed" /\ wpending # <<>>
    /\ cache' = HSet(cache, Head(wpending).key, Head(wpending).value)
    /\ wpending' = Tail(wpending)
    /\ wlast' = [line |-> "done", key |-> Head(wpending).key,
                 after |-> Head(wpending).after]
    /\ UNCHANGED <<worker, wabsorbed, ledger, channel, gatewayVars, countVars>>

\* The worker process after the handler's catch block ran: it goes on.
HandlerCatch_m(w) == "crashed"

HandlerCatch(w) == w

\* The awaited HSET rejects: the catch block of the handler logs the error.
WorkerHSetFail ==
    /\ worker = "subscribed" /\ wpending # <<>> /\ nevents < MaxEvents
    /\ nevents' = nevents + 1
    /\ wpending' = Tail(wpending)
    /\ wlast' = [line |-> "error", key |-> Head(wpending).key,
                 after |-> Head(wpending).after]
    /\ wabsorbed' = wabsorbed + 1
    /\ worker' = HandlerCatch(worker)
    /\ UNCHANGED <<storeVars, gatewayVars>>

\* ---------------------------------------------------------- the processes
Procs == {"gateway", "worker"}

\* if (retries > 10)
MaxRetries == 10

Min(a, b) == IF a < b THEN a ELSE b

\* A strategy that gives up one retry earlier.
reconnectStrategy_m(r) ==
    IF r >= MaxRetries THEN [error |-> TRUE, delay |-> 0]
    ELSE [error |-> FALSE, delay |-> Min(r * 100, 3000)]

\* reconnectStrategy: (retries) => retries > 10 ? new Error(...)
\*                                              : Math.min(retries * 100, 3000)
reconnectStrategy(r) ==
    IF r > MaxRetries THEN [error |-> TRUE, delay |-> 0]
    ELSE [error |-> FALSE, delay |-> Min(r * 100, 3000)]

Up(p) == proc[p] = "up"

\* The modules are loaded: the server listens, the connections are being made.
ProcIdle ==
    /\ proc = [p \in Procs |-> "up"]
    /\ conn = [p \in Procs |-> "connecting"]
    /\ retries = [p \in Procs |-> 0]
    /\ dbinit = "pending"
    /\ listening = TRUE /\ inflight = 0
    /\ closers = 0 /\ timer = FALSE /\ release = "none"
    /\ handled = 0 /\ pevents = 0

\* Both processes have connected, the table exists and the gateway serves.
ProcRunning ==
    /\ proc = [p \in Procs |-> "up"]
    /\ conn = [p \in Procs |-> "ready"]
    /\ retries = [p \in Procs |-> 0]
    /\ dbinit = "done"
    /\ listening = TRUE /\ inflight \in 0..MaxInflight
    /\ closers = 0 /\ timer = FALSE /\ release = "none"
    /\ handled = 0 /\ pevents = 0

\* An attempt to connect succeeds: at startup the awaited connect() resolves.
ConnectSucceeds(p) ==
    /\ Up(p) /\ conn[p] \in {"connecting", "reconnecting"}
    /\ conn' = [conn EXCEPT ![p] = "ready"]
    /\ retries' = [retries EXCEPT ![p] = 0]
    /\ UNCHANGED <<proc, dbinit, listening, inflight, closers, timer, release, handled, pevents>>

\* An attempt to connect fails and the client asks reconnectStrategy. When it
\* gives up the client is closed and its 'error' listener logs; at startup the
\* awaited connect() rejects and the catch block calls process.exit(1).
ConnectFails(p) ==
    /\ Up(p) /\ conn[p] \in {"connecting", "reconnecting"}
    /\ IF reconnectStrategy(retries[p]).error
       THEN /\ conn' = [conn EXCEPT ![p] = "closed"]
            /\ proc' = [proc EXCEPT ![p] = IF conn[p] = "connecting" THEN "exit1" ELSE @]
            /\ UNCHANGED retries
       ELSE /\ retries' = [retries EXCEPT ![p] = @ + 1]
            /\ UNCHANGED <<conn, proc>>
    /\ UNCHANGED <<dbinit, listening, inflight, closers, timer, release, handled, pevents>>

\* The connection of a connected client breaks.
ConnectionLost(p) ==
    /\ Up(p) /\ conn[p] = "ready" /\ pevents < MaxEvents
    /\ pevents' = pevents + 1
    /\ conn' = [conn EXCEPT ![p] = "reconnecting"]
    /\ retries' = [retries EXCEPT ![p] = 0]
    /\ UNCHANGED <<proc, dbinit, listening, inflight, closers, timer, release, handled>>

\* initializeDatabase(): await pgClient.query(createTableQuery)
DbInitDone ==
    /\ Up("gateway") /\ dbinit = "pending"
    /\ dbinit' = "done"
    /\ UNCHANGED <<proc, conn, retries, listening, inflight, closers, timer, release, handled, pevents>>

\* initializeDatabase(): the query throws, the catch block calls process.exit(1).
DbInitFails ==
    /\ Up("gateway") /\ dbinit = "pending"
    /\ dbinit' = "failed"
    /\ proc' = [proc EXCEPT !["gateway"] = "exit1"]
    /\ UNCHANGED <<conn, retries, listening, inflight, closers, timer, release, handled, pevents>>

\* The server accepts a connection with a request.
RequestArrives ==
    /\ Up("gateway") /\ listening /\ inflight < MaxInflight /\ pevents < MaxEvents
    /\ pevents' = pevents + 1
    /\ inflight' = inflight + 1
    /\ UNCHANGED <<proc, conn, retries, dbinit, listening, closers, timer, release, handled>>

\* A route handler, the 404 handler or the error handler sends the response.
RequestAnswered ==
    /\ Up("gateway") /\ inflight > 0
    /\ inflight' = inflight - 1
    /\ UNCHANGED <<proc, conn, retries, dbinit, listening, closers, timer, release, handled, pevents>>

\* The worker's listener runs for a message delivered on its subscription.
WorkerHandles ==
    /\ Up("worker") /\ conn["worker"] = "ready" /\ pevents < MaxEvents
    /\ pevents' = pevents + 1
    /\ handled' = handled + 1
    /\ UNCHANGED <<proc, conn, retries, dbinit, listening, inflight, closers, timer, release>>

\* gracefulShutdown(signal): server.close(callback); setTimeout(..., 30000)
gracefulShutdown ==
    /\ listening' = FALSE
    /\ closers' = closers + 1
    /\ timer' = TRUE

\* process.on('SIGTERM' / 'SIGINT', () => gracefulShutdown(...))
Signal ==
    /\ Up("gateway") /\ pevents < MaxEvents
    /\ pevents' = pevents + 1
    /\ gracefulShutdown
    /\ UNCHANGED <<proc, conn, retries, dbinit, inflight, release, handled>>

\* process.on('uncaughtException' / 'unhandledRejection', ...): log, then
\* gracefulShutdown(...)
Uncaught ==
    /\ Up("gateway") /\ pevents < MaxEvents
    /\ pevents' = pevents + 1
    /\ gracefulShutdown
    /\ UNCHANGED <<proc, conn, retries, dbinit, inflight, release, handled>>

\* The server has no connection left: the callback of server.close starts and
\* awaits pgClient.end().
ServerClosed ==
    /\ Up("gateway") /\ closers > 0 /\ inflight = 0 /\ release = "none"
    /\ release' = "pg"
    /\ UNCHANGED <<proc, conn, retries, dbinit, listening, inflight, closers, timer, handled, pevents>>

\* await pgClient.end() resolves; the callback awaits redisClient.quit().
PgEnded ==
    /\ Up("gateway") /\ release = "pg"
    /\ release' = "redis"
    /\ UNCHANGED <<proc, conn, retries, dbinit, listening, inflight, closers, timer, handled, pevents>>

\* await redisClient.quit() resolves; the callback awaits redisPublisher.quit().
RedisQuit ==
    /\ Up("gateway") /\ release = "redis"
    /\ release' = "publisher"
    /\ UNCHANGED <<proc, conn, retries, dbinit, listening, inflight, closers, timer, handled, pevents>>

\* await redisPublisher.quit() resolves: process.exit(0)
PublisherQuit ==
    /\ Up("gateway") /\ release = "publisher"
    /\ release' = "done"
    /\ proc' = [proc EXCEPT !["gateway"] = "exit0"]
    /\ UNCHANGED <<conn, retries, dbinit, listening, inflight, closers, timer, handled, pevents>>

\* A catch block that exits with status 0.
ReleaseFails_m ==
    /\ Up("gateway") /\ release \in {"pg", "redis", "publisher"}
    /\ proc' = [proc EXCEPT !["gateway"] = "exit0"]
    /\ UNCHANGED <<conn, retries, dbinit, listening, inflight, closers, timer, release, handled, pevents>>

\* One of the awaited releases rejects: the catch block calls process.exit(1).
ReleaseFails ==
    /\ Up("gateway") /\ release \in {"pg", "redis", "publisher"}
    /\ proc' = [proc EXCEPT !["gateway"] = "exit1"]
    /\ UNCHANGED <<conn, retries, dbinit, listening, inflight, closers, timer, release, handled, pevents>>

\* A timer whose callback logs and returns.
ForceExit_m ==
    /\ Up("gateway") /\ timer
    /\ timer' = FALSE
    /\ UNCHANGED <<proc, conn, retries, dbinit, listening, inflight, closers, release, handled, pevents>>

\* The timer of gracefulShutdown fires: process.exit(1)
ForceExit ==
    /\ Up("gateway") /\ timer
    /\ proc' = [proc EXCEPT !["gateway"] = "exit1"]
    /\ UNCHANGED <<conn, retries, dbinit, listening, inflight, closers, timer, release, handled, pevents>>

\* ------------------------------------------------------ the origin check
\* A value that may be undefined: an environment variable, a request header.
Undefined == [set |-> FALSE, s |-> <<>>]

Text(str) == [set |-> TRUE, s |-> str]

\* ['http://localhost:3000', 'http://localhost:3050']
DefaultOrigins ==
    << <<"h", "t", "t", "p", ":", "/", "/", "l", "o", "c", "a", "l", "h", "o", "s", "t",
         ":", "3", "0", "0", "0">>,
       <<"h", "t", "t", "p", ":", "/", "/", "l", "o", "c", "a", "l", "h", "o", "s", "t",
         ":", "3", "0", "5", "0">> >>

\* String.prototype.split(','): the pieces between the commas, empty ones too.
RECURSIVE SplitFrom(_, _, _)
SplitFrom(str, k, piece) ==
    IF k > Len(str) THEN <<piece>>
    ELSE IF str[k] = "," THEN <<piece>> \o SplitFrom(str, k + 1, <<>>)
    ELSE SplitFrom(str, k + 1, Append(piece, str[k]))

split(str) == SplitFrom(str, 1, <<>>)

\* Array.prototype.indexOf, counting from 0; -1 when there is no such element.
indexOf(list, x) ==
    IF \E i \in DOMAIN list : list[i] = x
    THEN (CHOOSE i \in DOMAIN list : list[i] = x /\ \A j \in 1..(i - 1) : list[j] # x) - 1
    ELSE -1

\* A string or undefined used as a condition: undefined and '' are falsy.
Truthy(v) == v.set /\ v.s # <<>>

\* process.env.ALLOWED_ORIGINS ? process.env.ALLOWED_ORIGINS.split(',') : [...]
allowedOrigins(env) == IF Truthy(env) THEN split(env.s) ELSE DefaultOrigins

\* corsOptions.origin: what it passes to its callback.
corsOrigin(origin, env) ==
    IF ~Truthy(origin) THEN "allow"
    ELSE IF indexOf(allowedOrigins(env), origin.s) # -1 THEN "allow"
    ELSE "error"

\* The characters of the configured and of the sent origins.
OriginAlphabet == {"a", "b", ","}

RECURSIVE OriginTexts(_)
OriginTexts(n) ==
    IF n = 0 THEN {<<>>}
    ELSE OriginTexts(n - 1)
         \cup {Append(t, ch) : t \in OriginTexts(n - 1), ch \in OriginAlphabet}

\* No request is at the middleware.
CorsIdle == cenv = Undefined /\ corigin = Undefined /\ cpc = "none"

\* A request arrives at app.use(cors(corsOptions)), the first middleware.
CorsInit ==
    /\ cenv \in {Undefined} \cup {Text(t) : t \in OriginTexts(MaxLen - 1)}
    /\ corigin \in {Undefined, Text(DefaultOrigins[1])}
                   \cup {Text(t) : t \in OriginTexts(MaxLen - 2)}
    /\ cpc = "cors"

\* The middleware calls corsOptions.origin and goes on with next() or next(err).
CorsCheck ==
    /\ cpc = "cors"
    /\ cpc' = IF corsOrigin(corigin, cenv) = "allow" THEN "next" ELSE "failed"
    /\ UNCHANGED <<cenv, corigin>>

\* The request passes the later middleware and reaches a route handler or the
\* 404 handler.
CorsRoute ==
    /\ cpc = "next"
    /\ cpc' = "routed"
    /\ UNCHANGED <<cenv, corigin>>

\* next(err) skips to the error handler, which answers 500.
CorsError ==
    /\ cpc = "failed"
    /\ cpc' = "answered500"
    /\ UNCHANGED <<cenv, corigin>>

\* Neither machine has started.
\* ------------------------------------------------- the worker's shutdown
\* No signal has arrived.
StopIdle == wstop = "none"

\* process.on('SIGTERM' | 'SIGINT'): the listener calls redisClient.quit() and
\* awaits it; from the call on the client takes no further command.
WorkerSignal ==
    /\ worker = "subscribed" /\ wstop = "none"
    /\ wstop' = "cache"
    /\ UNCHANGED pipeVars

\* The listener of a message that skips its catch block.
WorkerReceiveClosed_m ==
    /\ worker = "subscribed" /\ wstop \in {"cache", "sub"} /\ channel # <<>>
    /\ channel' = Tail(channel)
    /\ wlast' = [line |-> "calculating", key |-> Head(channel).body, after |-> wabsorbed]
    /\ worker' = "crashed"
    /\ UNCHANGED <<wstop, wpending, wabsorbed, cache, ledger, gatewayVars, countVars>>

\* The listener of a message while redisClient is closing or closed: parse,
\* validate, compute; hSet rejects and the catch block logs the error.
WorkerReceiveClosed ==
    /\ worker = "subscribed" /\ wstop \in {"cache", "sub"} /\ channel # <<>>
    /\ channel' = Tail(channel)
    /\ \E index \in {ParseIntStr(Head(channel).body)} :
          IF ~WorkerValid(index)
          THEN wlast' = [line |-> "invalid", key |-> <<>>, after |-> wabsorbed]
          ELSE wlast' = [line |-> "error", key |-> IntToStr(index.num),
                         after |-> wabsorbed]
    /\ wabsorbed' = wabsorbed + 1
    /\ worker' = HandlerCatch(worker)
    /\ UNCHANGED <<wstop, wpending, cache, ledger, gatewayVars, countVars>>

\* await redisClient.quit() resolves, after the replies to the commands sent
\* before it; the listener calls sub.quit() and awaits it.
WorkerCacheQuit ==
    /\ worker = "subscribed" /\ wstop = "cache" /\ wpending = <<>>
    /\ wstop' = "sub"
    /\ UNCHANGED pipeVars

\* await sub.quit() resolves; process.exit(0)
WorkerSubQuit ==
    /\ worker = "subscribed" /\ wstop = "sub"
    /\ wstop' = "exit0"
    /\ worker' = "stopped"
    /\ UNCHANGED <<wpending, wlast, wabsorbed, storeVars, gatewayVars, countVars>>

\* An awaited quit() rejects (the connection broke, or a second signal called
\* quit() on the closing client): the listener has no catch block and the
\* rejection ends the process with status 1.
WorkerQuitRejects ==
    /\ worker = "subscribed" /\ wstop \in {"cache", "sub"} /\ wpending = <<>>
    /\ nevents < MaxEvents
    /\ nevents' = nevents + 1
    /\ wstop' = "exit1"
    /\ worker' = "stopped"
    /\ UNCHANGED <<wpending, wlast, wabsorbed, storeVars, gatewayVars>>

\* ------------------------------------------------------- the client's form
\* String.prototype.trim, the end of the string.
RECURSIVE TrimEnd(_)
TrimEnd(s) ==
    IF s # <<>> /\ IsSpace(s[Len(s)]) THEN TrimEnd(SubSeq(s, 1, Len(s) - 1)) ELSE s

\* String.prototype.trim
trim(s) == TrimEnd(SubSeq(s, SkipSpace(s, 1), Len(s)))

\* No request was sent.
NoPost == [sent |-> FALSE, index |-> 0]

\* axios.post('/api/values', { index: parsedIndex })
Post(parsedIndex) == [sent |-> TRUE, index |-> parsedIndex]

\* The checks of handleSubmit without the upper limit.
FormCheck_m(index) ==
    IF index = <<>> \/ trim(index) = <<>> THEN "Please enter a number"
    ELSE LET parsedIndex == ParseIntStr(index) IN
         IF isNaN(parsedIndex) THEN "Please enter a valid number"
         ELSE IF Less(parsedIndex, 0) THEN "Please enter a non-negative number"
         ELSE ""

\* The checks of handleSubmit in their order: the message of the first that
\* fails, "" when all pass.
FormCheck(index) ==
    IF index = <<>> \/ trim(index) = <<>> THEN "Please enter a number"
    ELSE LET parsedIndex == ParseIntStr(index) IN
         IF isNaN(parsedIndex) THEN "Please enter a valid number"
         ELSE IF Less(parsedIndex, 0) THEN "Please enter a non-negative number"
         ELSE IF Greater(parsedIndex, 40) THEN "Index must be 40 or less"
         ELSE ""

\* useState(''), useState(null), useState(false): the form as it is mounted.
FormIdle ==
    /\ formIndex = <<>> /\ formError = "" /\ formPosted = NoPost
    /\ formPc = "idle"

\* The user has typed a text: onChange={(e) => setIndex(e.target.value)}
FormInit ==
    /\ formIndex \in Strings(MaxLen) /\ formError = "" /\ formPosted = NoPost
    /\ formPc = "editing"

\* handleSubmit up to its first await: setError(null), the checks, and either
\* setError(message) and return, or setLoading(true) and axios.post.
HandleSubmit ==
    /\ formPc = "editing"
    /\ \E message \in {FormCheck(formIndex)} :
          IF message # ""
          THEN /\ formError' = message
               /\ formPc' = "rejected"
               /\ UNCHANGED <<formIndex, formPosted>>
          ELSE /\ formError' = ""
               /\ formPosted' = Post(ParseIntStr(formIndex).num)
               /\ formPc' = "posting"
               /\ UNCHANGED formIndex

\* await axios.post resolves: setIndex(''), fetchIndexes(), setLoading(false)
FormPostResolves ==
    /\ formPc = "posting"
    /\ formIndex' = <<>>
    /\ formPc' = "idle"
    /\ UNCHANGED <<formError, formPosted>>

\* await axios.post rejects:
\* setError(err.response?.data?.error || 'Failed to calculate Fibonacci number')
FormPostRejects ==
    /\ formPc = "posting"
    /\ formError' \in {"Internal server error", "Failed to calculate Fibonacci number"}
    /\ formPc' = "failed"
    /\ UNCHANGED <<formIndex, formPosted>>


SideIdle == ProcIdle /\ CorsIdle /\ StopIdle /\ FormIdle

\* ------------------------------------------------------------ the pipeline
PipeIdle ==
    /\ cache = <<>> /\ ledger = <<>> /\ channel = <<>>
    /\ worker = "connecting" /\ wpending = <<>>
    /\ wlast = [line |-> "", key |-> <<>>, after |-> 0] /\ wabsorbed = 0
    /\ pc = [c \in Clients |-> "idle"]
    /\ idx = [c \in Clients |-> -1]
    /\ effects = [c \in Clients |-> <<>>]
    /\ resp = [c \in Clients |-> NoResp]
    /\ got = [c \in Clients |-> NoGot]
    /\ nevents = 0

Init == PipeIdle /\ FibIdle /\ ValIdle /\ SideIdle

Next ==
    \/ \E c \in Clients, index \in PostInputs : PostReceive(c, index) /\ UNCHANGED <<fibVars, valVars, sideVars>>
    \/ \E c \in Clients : PostHSet(c) /\ UNCHANGED <<fibVars, valVars, sideVars>>
    \/ \E c \in Clients : PostHSetFail(c) /\ UNCHANGED <<fibVars, valVars, sideVars>>
    \/ \E c \in Clients : PostPublish(c) /\ UNCHANGED <<fibVars, valVars, sideVars>>
    \/ \E c \in Clients : PostPublishFail(c) /\ UNCHANGED <<fibVars, valVars, sideVars>>
    \/ \E c \in Clients : PostInsert(c) /\ UNCHANGED <<fibVars, valVars, sideVars>>
    \/ \E c \in Clients : PostInsertFail(c) /\ UNCHANGED <<fibVars, valVars, sideVars>>
    \/ \E c \in Clients : PostRespond(c) /\ UNCHANGED <<fibVars, valVars, sideVars>>
    \/ \E c \in Clients : GetCurrent(c) /\ UNCHANGED <<fibVars, valVars, sideVars>>
    \/ \E c \in Clients : GetCurrentFail(c) /\ UNCHANGED <<fibVars, valVars, sideVars>>
    \/ \E c \in Clients : GetAll(c) /\ UNCHANGED <<fibVars, valVars, sideVars>>
    \/ \E c \in Clients : GetAllFail(c) /\ UNCHANGED <<fibVars, valVars, sideVars>>
    \/ \E c \in Clients : ClientReset(c) /\ UNCHANGED <<fibVars, valVars, sideVars>>
    \/ \E body \in ExtMessages : ExternalPublish(body) /\ UNCHANGED <<fibVars, valVars, sideVars>>
    \/ WorkerSubscribe /\ UNCHANGED <<fibVars, valVars, sideVars>>
    \/ WorkerReceive /\ UNCHANGED <<fibVars, valVars, sideVars>>
    \/ WorkerHSet /\ UNCHANGED <<fibVars, valVars, sideVars>>
    \/ WorkerHSetFail /\ UNCHANGED <<fibVars, valVars, sideVars>>

Spec == Init /\ [][Next]_vars

\* ------------------------------------------- the pipeline without failures
\* The worker has subscribed before the first request, or there is no worker.
PipeReady ==
    /\ cache = <<>> /\ ledger = <<>> /\ channel = <<>>
    /\ worker \in {"connecting", "subscribed"} /\ wpending = <<>>
    /\ wlast = [line |-> "", key |-> <<>>, after |-> 0] /\ wabsorbed = 0
    /\ pc = [c \in Clients |-> "idle"]
    /\ idx = [c \in Clients |-> -1]
    /\ effects = [c \in Clients |-> <<>>]
    /\ resp = [c \in Clients |-> NoResp]
    /\ got = [c \in Clients |-> NoGot]
    /\ nevents = 0

InitFair == PipeReady /\ FibIdle /\ ValIdle /\ SideIdle

\* A step of the pipeline alone.
Alone(A) == A /\ UNCHANGED <<fibVars, valVars, sideVars>>

\* The steps of POST /values and of the worker when no store or channel
\* operation fails.
NextFair ==
    \/ \E c \in Clients, index \in PostInputs : Alone(PostReceive(c, index))
    \/ \E c \in Clients : Alone(PostHSet(c))
    \/ \E c \in Clients : Alone(PostPublish(c))
    \/ \E c \in Clients : Alone(PostInsert(c))
    \/ \E c \in Clients : Alone(PostRespond(c))
    \/ \E c \in Clients : Alone(ClientReset(c))
    \/ Alone(WorkerReceive)
    \/ Alone(WorkerHSet)

\* A store that does not fail replies to each awaited operation, and the event
\* loop runs the continuation of the handler and the listener of a delivered
\* message.
Fairness ==
    /\ \A c \in Clients : WF_vars(Alone(PostHSet(c)))
    /\ \A c \in Clients : WF_vars(Alone(PostPublish(c)))
    /\ \A c \in Clients : WF_vars(Alone(PostInsert(c)))
    /\ \A c \in Clients : WF_vars(Alone(PostRespond(c)))
    /\ WF_vars(Alone(WorkerReceive))
    /\ WF_vars(Alone(WorkerHSet))

SpecFair == InitFair /\ [][NextFair]_vars /\ Fairness

\* The worker's shutdown while the gateway goes on; the stores do not fail.
StopOther == UNCHANGED <<fibVars, valVars, procVars, corsVars, formVars>>

NextStop ==
    \/ \E c \in Clients, index \in PostInputs : Alone(PostReceive(c, index))
    \/ \E c \in Clients : Alone(PostHSet(c))
    \/ \E c \in Clients : Alone(PostPublish(c))
    \/ \E c \in Clients : Alone(PostInsert(c))
    \/ \E c \in Clients : Alone(PostRespond(c))
    \/ \E c \in Clients : Alone(ClientReset(c))
    \/ Alone(ExternalPublish(<<"a">>))
    \/ Alone(WorkerReceive /\ wstop = "none")
    \/ Alone(WorkerHSet)
    \/ WorkerSignal /\ StopOther
    \/ WorkerReceiveClosed /\ StopOther
    \/ WorkerCacheQuit /\ StopOther
    \/ WorkerSubQuit /\ StopOther
    \/ WorkerQuitRejects /\ StopOther

InitStop == PipeReady /\ worker = "subscribed" /\ FibIdle /\ ValIdle /\ SideIdle

\* Redis replies to the commands it was sent and the event loop runs the
\* continuations of the listener.
FairnessStop ==
    /\ WF_vars(Alone(WorkerHSet))
    /\ WF_vars(WorkerCacheQuit /\ StopOther)
    /\ WF_vars(WorkerSubQuit /\ StopOther)

SpecStop == InitStop /\ [][NextStop]_vars /\ FairnessStop

\* One submission of the client's form.
FormOther == UNCHANGED <<fibVars, valVars, pipeVars, procVars, corsVars, stopVars>>

NextClient ==
    \/ HandleSubmit /\ FormOther
    \/ FormPostResolves /\ FormOther
    \/ FormPostRejects /\ FormOther

InitClient ==
    FormInit /\ ProcIdle /\ CorsIdle /\ StopIdle /\ PipeIdle /\ FibIdle /\ ValIdle

SpecClient == InitClient /\ [][NextClient]_vars

\* The two processes from their start.
ProcOther == UNCHANGED <<fibVars, valVars, pipeVars, corsVars, stopVars, formVars>>

NextProcess ==
    \/ \E p \in Procs : ConnectSucceeds(p) /\ ProcOther
    \/ \E p \in Procs : ConnectFails(p) /\ ProcOther
    \/ \E p \in Procs : ConnectionLost(p) /\ ProcOther
    \/ DbInitDone /\ ProcOther
    \/ DbInitFails /\ ProcOther
    \/ RequestArrives /\ ProcOther
    \/ RequestAnswered /\ ProcOther
    \/ WorkerHandles /\ ProcOther
    \/ Signal /\ ProcOther
    \/ Uncaught /\ ProcOther
    \/ ServerClosed /\ ProcOther
    \/ PgEnded /\ ProcOther
    \/ RedisQuit /\ ProcOther
    \/ PublisherQuit /\ ProcOther
    \/ ReleaseFails /\ ProcOther
    \/ ForceExit /\ ProcOther

InitProcess == ProcIdle /\ CorsIdle /\ StopIdle /\ FormIdle /\ PipeIdle /\ FibIdle /\ ValIdle

SpecProcess == InitProcess /\ [][NextProcess]_vars

\* The gateway from the state in which it serves, up to its exit; the worker is
\* a process of its own and goes on meanwhile.
ShutForceExit == ForceExit /\ ProcOther

NextShutdown ==
    \/ RequestArrives /\ ProcOther
    \/ RequestAnswered /\ ProcOther
    \/ Signal /\ ProcOther
    \/ Uncaught /\ ProcOther
    \/ ServerClosed /\ ProcOther
    \/ PgEnded /\ ProcOther
    \/ RedisQuit /\ ProcOther
    \/ PublisherQuit /\ ProcOther
    \/ ReleaseFails /\ ProcOther
    \/ ShutForceExit
    \/ WorkerHandles /\ ProcOther

InitShutdown == ProcRunning /\ CorsIdle /\ StopIdle /\ FormIdle /\ PipeIdle /\ FibIdle /\ ValIdle

\* A timer that is armed fires: nothing else of the shutdown is sure to happen.
SpecShutdown == InitShutdown /\ [][NextShutdown]_vars /\ WF_vars(ShutForceExit)

\* One request at the origin check.
CorsOther == UNCHANGED <<fibVars, valVars, pipeVars, procVars, stopVars, formVars>>

NextCors ==
    \/ CorsCheck /\ CorsOther
    \/ CorsRoute /\ CorsOther
    \/ CorsError /\ CorsOther

InitCors == CorsInit /\ ProcRunning /\ inflight = 1 /\ StopIdle /\ FormIdle /\ PipeIdle /\ FibIdle /\ ValIdle

SpecCors == InitCors /\ [][NextCors]_vars

\* ------------------------------------------------------- specifications
NextFib ==
    \/ FibReturnBase /\ UNCHANGED <<valVars, pipeVars, sideVars>>
    \/ FibEnterLoop /\ UNCHANGED <<valVars, pipeVars, sideVars>>
    \/ FibIterate /\ UNCHANGED <<valVars, pipeVars, sideVars>>
    \/ FibReturn /\ UNCHANGED <<valVars, pipeVars, sideVars>>

InitFib == FibInit /\ ValIdle /\ PipeIdle /\ SideIdle

SpecFib == InitFib /\ [][NextFib]_vars

NextValidate ==
    \/ VCheckMissing /\ UNCHANGED <<fibVars, pipeVars, sideVars>>
    \/ VCheckMalformed /\ UNCHANGED <<fibVars, pipeVars, sideVars>>
    \/ VCheckNegative /\ UNCHANGED <<fibVars, pipeVars, sideVars>>
    \/ VCheckHigh /\ UNCHANGED <<fibVars, pipeVars, sideVars>>
    \/ VCheckInteger /\ UNCHANGED <<fibVars, pipeVars, sideVars>>
    \/ VAccept /\ UNCHANGED <<fibVars, pipeVars, sideVars>>

InitValidate == ValInit /\ FibIdle /\ PipeIdle /\ SideIdle

SpecValidate == InitValidate /\ [][NextValidate]_vars

\* ------------------------------------------------------------- claims
\* The recurrence F(0) = 1, F(1) = 1, F(n) = F(n-1) + F(n-2), as a table F(0..n).
RECURSIVE RecurrenceTable(_)
RecurrenceTable(n) ==
    IF n = 0 THEN <<1>>
    ELSE IF n = 1 THEN <<1, 1>>
    ELSE LET t == RecurrenceTable(n - 1) IN Append(t, t[n] + t[n - 1])

RecurrenceF(n) == RecurrenceTable(n)[n + 1]

\* C1: for every index in 0..40 the value fib returns is F(index) of the
\* recurrence F(0) = F(1) = 1, F(n) = F(n-1) + F(n-2); fib(0) = 1, fib(1) = 1,
\* fib(5) = 8, fib(10) = 89, fib(40) = 165580141.
C1_FibIsRecurrence ==
    fpc = "returned" =>
        /\ fresult = RecurrenceF(findex)
        /\ fresult = fib(findex)
        /\ (findex = 0 => fresult = 1)
        /\ (findex = 1 => fresult = 1)
        /\ (findex = 5 => fresult = 8)
        /\ (findex = 10 => fresult = 89)
        /\ (findex = 40 => fresult = 165580141)

C1_Witness == fpc = "returned" /\ findex = 40 /\ fresult = 165580141 /\ fi = 41

\* The order of the checks that the claim states.
ClaimedOrder == <<"missing", "malformed", "negative", "high", "integer">>

\* The position in ClaimedOrder of the first check that index fails, 0 when none.
FirstFailing(index) ==
    LET failing == {k \in 1..Len(ClaimedOrder) : CheckFails(ClaimedOrder[k], index)}
    IN  IF failing = {} THEN 0 ELSE CHOOSE k \in failing : \A j \in failing : k <= j

\* C2: the checks run in the order missing, malformed, negative, above 40,
\* non-integer; the response is that of the first check that fails and no check
\* after it is evaluated.
C2_FirstFailureWins ==
    LET k == FirstFailing(vindex)
    IN  /\ vpc = "checking" =>
            /\ vevals = SubSeq(ClaimedOrder, 1, Len(vevals))
            /\ \A j \in 1..Len(vevals) : ~CheckFails(vevals[j], vindex)
        /\ vpc = "rejected" =>
            /\ k > 0
            /\ vevals = SubSeq(ClaimedOrder, 1, k)
            /\ vreply = Reply(ClaimedOrder[k])
            /\ Validate(vindex) = vreply
        /\ vpc = "accepted" =>
            /\ k = 0
            /\ vevals = ClaimedOrder
            /\ Validate(vindex) = NoReply

\* A negative fractional value fails 'negative' and 'integer': answered as negative.
C2_Witness ==
    /\ vpc = "rejected"
    /\ vindex = JStr(<<"-", "1", ".", "5">>)
    /\ CheckFails("integer", vindex)
    /\ vreply = Reply("negative")
    /\ vevals = <<"missing", "malformed", "negative">>

\* ---- the pipeline
\* The cache key of index n and the final value of the entry under key k.
KeyOf(n) == IntToStr(n)

FinalOf(k) == IntToStr(RecurrenceF(ParseIntStr(k).num))

\* Client c's handler performs the side effect `step` in this step.
Performs(c, step) == effects'[c] = Append(effects[c], step)

\* The worker's awaited HSET for key k completes in this step.
WorkerWrites(k) ==
    /\ wpending # <<>> /\ wpending' = Tail(wpending)
    /\ Head(wpending).key = k /\ wlast'.line = "done"

\* The body parses to an integer in 0..40.
InRange(body) ==
    LET p == ParseIntStr(body) IN ~p.nan /\ 0 <= p.num /\ p.num <= 40

\* The worker's handler takes the message at the head of the channel in this step.
WorkerTakes == channel # <<>> /\ channel' = Tail(channel)

\* C3: a submission rejected by validation changes neither the cache nor the
\* channel nor the ledger, and the handler has performed no side effect.
C3_RejectedChangesNothing ==
    [][\A c \in Clients :
          (pc[c] = "idle" /\ pc'[c] = "answered") =>
              /\ resp'[c].status \in {400, 422}
              /\ UNCHANGED <<cache, channel, ledger>>
              /\ effects'[c] = <<>>]_vars

C3_Witness ==
    \E c \in Clients :
        /\ pc[c] = "answered" /\ resp[c] = Rejection(Reply("negative"))
        /\ effects[c] = <<>> /\ cache = <<>> /\ ledger = <<>> /\ channel = <<>>
        /\ worker = "subscribed"

\* The side effects of an accepted submission, in the order the claim states.
ClaimedEffects == <<"hset", "publish", "insert">>

\* The effects performed are a prefix of the claimed order, a 201 has all three
\* behind it, and a message of the gateway on the channel has its key in the cache.
C4_State ==
    /\ \A c \in Clients :
          /\ effects[c] = SubSeq(ClaimedEffects, 1, Len(effects[c]))
          /\ resp[c].status = 201 =>
                /\ effects[c] = ClaimedEffects
                /\ resp[c].working /\ resp[c].index = idx[c]
    /\ \A k \in DOMAIN channel :
          channel[k].from = "gateway" => channel[k].body \in DOMAIN cache

\* What each side effect, and the 201, changes.
C4_Step ==
    \A c \in Clients :
        /\ Performs(c, "hset") =>
              /\ cache' = HSet(cache, KeyOf(idx[c]), Placeholder)
              /\ UNCHANGED <<channel, ledger>>
        /\ Performs(c, "publish") =>
              /\ worker = "subscribed" =>
                    channel' = Append(channel, [body |-> KeyOf(idx[c]), from |-> "gateway"])
              /\ worker # "subscribed" => channel' = channel
              /\ UNCHANGED <<cache, ledger>>
        /\ Performs(c, "insert") =>
              /\ idx[c] \in LedgerNumbers(ledger')
              /\ UNCHANGED <<cache, channel>>
        /\ (resp'[c].status = 201 /\ resp[c].status # 201) =>
              /\ effects[c] = ClaimedEffects
              /\ UNCHANGED <<cache, channel, ledger>>

\* C4: an accepted submission of i writes the placeholder under key i, then
\* publishes the decimal text of i, then inserts i into the ledger, and answers
\* 201 with working = true and index = i only after all three; a message of the
\* gateway that is on the channel has its key in the cache.
C4_ThreeEffectsInOrder == []C4_State /\ [][C4_Step]_vars

C4_Witness ==
    \E c \in Clients :
        /\ resp[c].status = 201 /\ idx[c] = 10
        /\ effects[c] = ClaimedEffects
        /\ channel = <<[body |-> <<"1", "0">>, from |-> "gateway"]>>
        /\ cache = (<<"1", "0">> :> Placeholder)
        /\ ledger = <<[number |-> 10]>>

\* No two rows of the ledger hold the same number.
C5_State ==
    \A i, j \in DOMAIN ledger : ledger[i].number = ledger[j].number => i = j

\* An insert of a number that is present changes nothing and raises no error.
C5_Step ==
    \A c \in Clients :
        (Performs(c, "insert") /\ idx[c] \in LedgerNumbers(ledger)) =>
            /\ ledger' = ledger
            /\ pc'[c] = "respond"
            /\ resp'[c] = resp[c]

\* C5: under every interleaving of submissions the ledger holds at most one row
\* per number; inserting a number that is already there leaves the ledger as it
\* is and the handler goes on to its 201.
C5_LedgerUnique == []C5_State /\ [][C5_Step]_vars

\* Two concurrent submissions of the same index, both past their insert.
C5_Witness ==
    \E c, d \in Clients :
        /\ c # d /\ idx[c] = idx[d]
        /\ pc[c] = "respond" /\ pc[d] = "respond"
        /\ Len(ledger) = 1 /\ ledger[1].number = idx[c]

\* Client c holds the response to a GET /values/current it issued right after its
\* POST /values was answered 201, and that response is a 200.
ReadAfterCreated(c) == pc[c] = "read" /\ resp[c].status = 201 /\ got[c].status = 200

\* C6 as stated: the mapping returned right after the 201 maps i to the
\* placeholder. Stated for index 10, which no message of ExtMessages parses to:
\* its entry is written by the gateway and by the worker handling the gateway's
\* messages only.
C6_Original ==
    \A c \in Clients :
        (ReadAfterCreated(c) /\ resp[c].index = 10) =>
            /\ KeyOf(resp[c].index) \in DOMAIN got[c].body
            /\ got[c].body[KeyOf(resp[c].index)] = Placeholder

\* C6: the mapping returned right after the 201 holds key i, mapped to the
\* placeholder or, when the worker was faster than the GET, to the decimal
\* string of fib(i).
C6_PlaceholderOrFinal ==
    \A c \in Clients :
        ReadAfterCreated(c) =>
            /\ KeyOf(resp[c].index) \in DOMAIN got[c].body
            /\ got[c].body[KeyOf(resp[c].index)]
                   \in {Placeholder, FinalOf(KeyOf(resp[c].index))}

C6_Witness ==
    \E c \in Clients :
        /\ ReadAfterCreated(c) /\ resp[c].index = 10
        /\ got[c].body = (<<"1", "0">> :> Placeholder)

\* What GET /values/current answers in this state.
CurrentValues == HGetAll(cache)

\* The index of key k has been submitted and recorded in the ledger.
Recorded(k) == ParseIntStr(k).num \in LedgerNumbers(ledger)

\* C7 as stated, for the indexes a submission has recorded in the ledger: once
\* the entry shows its final value, every later GET /values/current shows it.
C7_Original ==
    [][\A k \in DOMAIN CurrentValues :
          (Recorded(k) /\ CurrentValues[k] = FinalOf(k)) =>
              CurrentValues'[k] = FinalOf(k)]_vars

\* The worker's write shows the final value; a final value changes only to the
\* placeholder, by the placeholder write of a submission of that index.
C7_Step ==
    /\ \A k \in DOMAIN cache' :
          WorkerWrites(k) => (k \in DOMAIN CurrentValues' /\ CurrentValues'[k] = FinalOf(k))
    /\ \A k \in DOMAIN CurrentValues :
          (CurrentValues[k] = FinalOf(k) /\ CurrentValues'[k] # FinalOf(k)) =>
              /\ CurrentValues'[k] = Placeholder
              /\ \E c \in Clients : Performs(c, "hset") /\ KeyOf(idx[c]) = k

\* C7: when the worker's write for index i completes, GET /values/current shows i
\* mapped to the decimal string of fib(i), and it does so until i is submitted
\* again: only the placeholder write of a new accepted submission of i changes
\* the entry, to the placeholder.
C7_FinalUntilResubmitted == [][C7_Step]_vars

C7_Witness ==
    \E c \in Clients :
        /\ ReadAfterCreated(c) /\ resp[c].index = 10
        /\ got[c].body[<<"1", "0">>] = <<"8", "9">>
        /\ wlast.line = "done" /\ wlast.key = <<"1", "0">>

\* C8 as stated, for the indexes a submission has recorded in the ledger: an
\* entry that left the placeholder is never written again by the worker and never
\* returns to the placeholder.
C8_Original ==
    [][\A k \in DOMAIN cache :
          (Recorded(k) /\ cache[k] # Placeholder) =>
              (cache'[k] # Placeholder /\ ~WorkerWrites(k))]_vars

\* An entry holds the placeholder or the final value of its index.
C8_State ==
    \A k \in DOMAIN cache : cache[k] \in {Placeholder, FinalOf(k)}

\* Entries are created and changed only by the gateway's placeholder write and by
\* the worker's write; the worker sends one HSET per valid message and each
\* completion consumes one.
C8_Step ==
    /\ DOMAIN cache \subseteq DOMAIN cache'
    /\ \A k \in DOMAIN cache' :
          (k \notin DOMAIN cache \/ cache'[k] # cache[k]) =>
              \/ cache'[k] = Placeholder /\ \E c \in Clients : Performs(c, "hset") /\ KeyOf(idx[c]) = k
              \/ cache'[k] = FinalOf(k) /\ WorkerWrites(k)
    /\ wpending' # wpending =>
          \/ /\ WorkerTakes /\ InRange(Head(channel).body)
             /\ Len(wpending') = Len(wpending) + 1
             /\ SubSeq(wpending', 1, Len(wpending)) = wpending
             /\ wpending'[Len(wpending')].key = KeyOf(ParseIntStr(Head(channel).body).num)
          \/ wpending # <<>> /\ wpending' = Tail(wpending)

\* C8: an entry holds the placeholder or the final value of its index; the
\* placeholder is written by the gateway at each accepted submission of the index
\* (also over a final value), the final value by the worker, once for each valid
\* message it handled for the index; nothing else changes an entry.
C8_EntryLifecycle == []C8_State /\ [][C8_Step]_vars

\* The entry of index 10 is back at the placeholder after the worker wrote it.
C8_Witness ==
    /\ <<"1", "0">> \in DOMAIN cache /\ cache[<<"1", "0">>] = Placeholder
    /\ wlast.line = "done" /\ wlast.key = <<"1", "0">>

\* The worker process has not died of an unhandled error.
C9_State == worker \in {"connecting", "subscribed"}

\* The worker stays subscribed; it computes every valid message it takes and
\* sends its HSET, which writes the computed value when it completes.
C9_Step ==
    /\ worker = "subscribed" => worker' = "subscribed"
    /\ (WorkerTakes /\ WorkerValid(ParseIntStr(Head(channel).body))) =>
          LET n == ParseIntStr(Head(channel).body).num
          IN  /\ Len(wpending') = Len(wpending) + 1
              /\ wpending'[Len(wpending')].key = KeyOf(n)
              /\ wpending'[Len(wpending')].value = IntToStr(RecurrenceF(n))
    /\ \A k \in DOMAIN cache' :
          WorkerWrites(k) => cache'[k] = Head(wpending).value

\* C9: a message that is not numeric, or whose cache write fails, leaves the
\* worker running and subscribed; a valid message that arrives afterwards is
\* computed and written, however many messages were given up before.
C9_WorkerSurvives == []C9_State /\ [][C9_Step]_vars

\* A valid message that arrived after two messages were given up has been written.
C9_Witness ==
    /\ worker = "subscribed"
    /\ wlast.line = "done" /\ wlast.after >= 2
    /\ cache[wlast.key] = FinalOf(wlast.key)

\* C10: a message whose parsed integer is not a number or is outside 0..40 is
\* discarded: no HSET is sent, fib is not computed, the cache is unchanged.
C10_InvalidDiscarded ==
    [][(WorkerTakes /\ ~InRange(Head(channel).body)) =>
          /\ UNCHANGED <<cache, wpending, worker>>
          /\ wlast'.line = "invalid"]_vars

C10_Witness ==
    /\ wlast.line = "invalid" /\ wabsorbed = 2
    /\ channel = <<>> /\ wpending = <<>> /\ cache = <<>>

\* ---- the validation chain, by kind of input
\* The index field as parseInt reads it.
Parsed == parseInt(vindex)

\* C13: an index above 40 (41) is answered 422 and a negative index (-1) is
\* answered 400: the two statuses differ.
C13_TooHighDistinct ==
    /\ Reply("high").status # Reply("negative").status
    /\ vpc # "checking" =>
          /\ Greater(Parsed, 40) => (vpc = "rejected" /\ vreply.status = 422)
          /\ Less(Parsed, 0) => (vpc = "rejected" /\ vreply.status = 400)
          /\ vindex = JNum(410) => vreply.error = "Index too high (maximum: 40)"
          /\ vindex = JNum(-10) => vreply.error = "Index must be non-negative"

C13_Witness ==
    /\ vpc = "rejected" /\ vindex = JNum(410)
    /\ vreply.status = 422 /\ vevals = <<"missing", "malformed", "negative", "high">>

\* The index field parses to a number outside 0..40.
OutOfRange == Less(Parsed, 0) \/ Greater(Parsed, 40)

\* C14 as stated: 422 for every out-of-range index, below 0 or above 40, and 400
\* for nothing but the other rejections.
C14_Original ==
    vpc = "rejected" =>
        /\ OutOfRange => vreply.status = 422
        /\ ~OutOfRange => vreply.status = 400

\* C14: POST /values answers an index above 40 with 422 and every other rejected
\* input, missing, malformed, negative or non-integer, with 400.
C14_HighIs422RestIs400 ==
    vpc = "rejected" =>
        /\ vreply.status \in {400, 422}
        /\ vreply.status = 422 <=> Greater(Parsed, 40)
        /\ Less(Parsed, 0) => vreply = [status |-> 400, error |-> "Index must be non-negative"]
        /\ vreply.status = 400 =>
              \/ vreply.error = "Index is required"
              \/ isNaN(Parsed)
              \/ Less(Parsed, 0)
              \/ ~OutOfRange /\ StrictNotEqual(Parsed, parseFloat(vindex))

C14_Witness ==
    /\ vpc = "rejected" /\ vindex = JNum(-10)
    /\ vreply = [status |-> 400, error |-> "Index must be non-negative"]

\* The first position of s at or after k that holds no "0".
RECURSIVE SkipZeros(_, _)
SkipZeros(s, k) == IF k <= Len(s) /\ s[k] = "0" THEN SkipZeros(s, k + 1) ELSE k

\* The shape of the text s read as one decimal literal: white space, a sign,
\* digits, a point and fraction digits, white space, and nothing else.
Literal(s) ==
    LET k0 == SkipSpace(s, 1)
        signed == k0 <= Len(s) /\ s[k0] \in {"-", "+"}
        k1 == IF signed THEN k0 + 1 ELSE k0
        k2 == SkipDigits(s, k1)
        dot == k2 <= Len(s) /\ s[k2] = "."
        k3 == IF dot THEN SkipDigits(s, k2 + 1) ELSE k2
    IN  [ok |-> (k2 - k1) + (IF dot THEN k3 - (k2 + 1) ELSE 0) > 0
                /\ SkipSpace(s, k3) = Len(s) + 1,
         neg |-> signed /\ s[k0] = "-",
         digits |-> k2 - k1,
         whole |-> DigitsVal(s, k1, k2),
         fraction |-> dot /\ SkipZeros(s, k2 + 1) < k3]

\* The index field is a number, or the text of one, that is not whole.
Fractional(x) ==
    CASE x.t = "number" -> x.v % 10 # 0
      [] x.t = "string" -> Literal(x.s).ok /\ Literal(x.s).fraction
      [] OTHER -> FALSE

\* The whole part of a fractional index field lies in 0..40.
WholePartInRange(x) ==
    CASE x.t = "number" -> x.v > -10 /\ x.v < 10 * (MaxIndex + 1)
      [] x.t = "string" -> /\ Literal(x.s).whole <= MaxIndex
                           /\ (Literal(x.s).neg => Literal(x.s).whole = 0)
      [] OTHER -> FALSE

\* C15: an index field whose value is not a whole number is never accepted: it
\* is rejected with 400 or 422, and with 400 when its whole part is in 0..40.
C15_NoFractionAccepted ==
    (vpc # "checking" /\ Fractional(vindex)) =>
        /\ vpc = "rejected"
        /\ vreply.status \in {400, 422}
        /\ WholePartInRange(vindex) => vreply.status = 400

\* The index field denotes a whole number in 0..40: such a number, or text that
\* is one decimal literal with digits before the point and no fraction other
\* than zeros.
DenotesIndex(x) ==
    CASE x.t = "number" -> x.v % 10 = 0 /\ x.v >= 0 /\ x.v <= 10 * MaxIndex
      [] x.t = "string" -> /\ Literal(x.s).ok /\ ~Literal(x.s).fraction
                           /\ Literal(x.s).digits > 0
                           /\ Literal(x.s).whole <= MaxIndex
                           /\ (Literal(x.s).neg => Literal(x.s).whole = 0)
      [] OTHER -> FALSE

\* C16: the accepted index fields are exactly those that denote a whole number
\* in 0..40; text with trailing non-digits, non-numeric text and non-scalar
\* values are rejected.
C16_AcceptedAreIntegers ==
    vpc # "checking" => (vpc = "accepted" <=> DenotesIndex(vindex))

\* The index field is absent, null or the empty string.
IsMissing(x) == x \in {JUndefined, JNull, JStr(<<>>)}

\* C17: 'Index is required' answers exactly the absent, the null and the empty
\* index field; every other value, falsy ones included, goes on to the later
\* checks, and the number 0 passes them all.
C17_MissingExactly ==
    /\ vpc = "rejected" => (vreply = [status |-> 400, error |-> "Index is required"]
                               <=> IsMissing(vindex))
    /\ (IsMissing(vindex) /\ vpc # "checking") => vevals = <<"missing">>
    /\ (~IsMissing(vindex) /\ vpc # "checking") =>
          (Len(vevals) >= 2 /\ vevals[2] = "malformed")
    /\ (vindex \in {JNum(0), JStr(<<"0">>)} /\ vpc # "checking") => vpc = "accepted"
    /\ (vindex = JFalse /\ vpc # "checking") => vreply.error = "Index must be a valid number"

C17_Witness ==
    /\ vpc = "accepted" /\ vindex = JNum(0)
    /\ vevals = <<"missing", "malformed", "negative", "high", "integer">>

\* ---- failures of the stores during an accepted submission
\* Client c's handler is answered 500 in this step.
Answers500(c) == resp[c].status # 500 /\ resp'[c].status = 500

\* A 500 ends the handler: nothing is retried afterwards.
C11_State ==
    \A c \in Clients :
        resp[c].status = 500 =>
            /\ pc[c] = "answered" /\ resp[c] = ServerError
            /\ effects[c] \in {<<>>, <<"hset">>, <<"hset", "publish">>}

\* The failing step answers 500 and touches no store; the steps performed before
\* it stay as they are, and no step follows.
C11_Step ==
    \A c \in Clients :
        /\ (Answers500(c) /\ pc[c] = "hset") =>
              /\ effects'[c] = <<>>
              /\ UNCHANGED <<cache, channel, ledger, wpending>>
              /\ pc'[c] = "answered"
        /\ (Answers500(c) /\ pc[c] = "insert") =>
              /\ effects'[c] = <<"hset", "publish">>
              /\ KeyOf(idx[c]) \in DOMAIN cache'
              /\ UNCHANGED <<cache, channel, ledger, wpending>>
              /\ pc'[c] = "answered"
        /\ resp[c].status = 500 => effects'[c] \in {effects[c], <<>>}

\* C11: a failing store operation of an accepted submission is answered 500 with
\* no retry and no rollback: when the placeholder write fails nothing is
\* published or inserted; when the insert fails the entry stays in the cache and
\* the published message stays with the worker.
C11_StoreFailureIs500 == []C11_State /\ [][C11_Step]_vars

\* The insert of a submission of 10 failed, and the worker has computed fib(10).
C11_Witness ==
    \E c \in Clients :
        /\ resp[c] = ServerError /\ idx[c] = 10
        /\ effects[c] = <<"hset", "publish">>
        /\ ledger = <<>>
        /\ wlast.line = "done" /\ wlast.key = <<"1", "0">>
        /\ cache = (<<"1", "0">> :> <<"8", "9">>)

\* C12 as stated: however the publish ends, the handler is not answered 500 for
\* it and goes on to the insert.
C12_Original ==
    [][\A c \in Clients :
          (pc[c] = "publish" /\ pc'[c] # "publish") =>
              (resp'[c].status # 500 /\ pc'[c] = "insert")]_vars

\* C12: a publish that throws is answered 500 like a store failure: the entry
\* stays in the cache, nothing is inserted. A publish with no subscriber throws
\* nothing: the message is lost, the handler goes on to the insert.
C12_PublishErrorIs500 ==
    [][\A c \in Clients :
          (pc[c] = "publish" /\ pc'[c] # "publish") =>
              \/ /\ Performs(c, "publish") /\ pc'[c] = "insert"
                 /\ resp'[c] = resp[c]
                 /\ worker # "subscribed" => channel' = channel
              \/ /\ resp'[c] = ServerError /\ pc'[c] = "answered"
                 /\ effects'[c] = <<"hset">>
                 /\ KeyOf(idx[c]) \in DOMAIN cache'
                 /\ UNCHANGED <<cache, channel, ledger>>]_vars

\* The publish of a submission of 10 threw.
C12_Witness ==
    \E c \in Clients :
        /\ resp[c] = ServerError /\ idx[c] = 10
        /\ effects[c] = <<"hset">>
        /\ cache = (<<"1", "0">> :> Placeholder)
        /\ ledger = <<>> /\ channel = <<>>

\* ---- the two GET handlers
\* The rows are in ascending order of number.
Ascending(rows) == \A i, j \in DOMAIN rows : i < j => rows[i].number <= rows[j].number

\* C18: GET /values/all answers 200 with every row of the ledger, in ascending
\* order of number, in whatever order the rows were inserted.
C18_AllSortedAscending ==
    [][\A c \in Clients :
          (pc[c] # "listed" /\ pc'[c] = "listed" /\ got'[c].status = 200) =>
              /\ Ascending(got'[c].rows)
              /\ Len(got'[c].rows) = Len(ledger)
              /\ {got'[c].rows[i] : i \in DOMAIN got'[c].rows}
                     = {ledger[i] : i \in DOMAIN ledger}]_vars

\* 10 was inserted before 2; the response lists 2 before 10.
C18_Witness ==
    \E c \in Clients :
        /\ pc[c] = "listed" /\ got[c].status = 200
        /\ ledger = <<[number |-> 10], [number |-> 2]>>
        /\ got[c].rows = <<[number |-> 2], [number |-> 10]>>

\* C19: GET /values/current whose read succeeds answers 200 with the whole cache
\* as a mapping; with an empty cache, or a read that yields no value, the body is
\* the empty mapping, never null.
C19_CurrentIsWholeCache ==
    [][\A c \in Clients :
          (pc[c] # "read" /\ pc'[c] = "read" /\ got'[c].status = 200) =>
              /\ ~got'[c].null
              /\ got'[c].body = cache
              /\ cache = <<>> => got'[c].body = <<>>]_vars

\* A GET answered from the empty cache.
C19_Witness ==
    \E c \in Clients :
        /\ pc[c] = "read" /\ got[c].status = 200
        /\ ~got[c].null /\ got[c].body = <<>>
        /\ cache = <<>> /\ effects[c] = <<>> /\ resp[c] = NoResp

\* ---- ownership of the entries
\* A handler of the gateway, or the worker, takes a step.
GatewaySteps == \E c \in Clients : pc'[c] # pc[c]

WorkerSteps == <<worker, wpending, wlast, wabsorbed>>' # <<worker, wpending, wlast, wabsorbed>>

\* The text is a non-empty run of decimal digits.
Numeric(str) == str # <<>> /\ \A i \in DOMAIN str : IsDigit(str[i])

\* C20: cache keys and ledger rows are never removed; an entry is set to the
\* placeholder only by a handler of the gateway and to a numeric value only by the
\* worker; rows are inserted only by a handler of the gateway.
C20_NoDeleteDisjointWriters ==
    [][/\ DOMAIN cache \subseteq DOMAIN cache'
       /\ Len(ledger') >= Len(ledger) /\ SubSeq(ledger', 1, Len(ledger)) = ledger
       /\ \A k \in DOMAIN cache' :
             (k \notin DOMAIN cache \/ cache'[k] # cache[k]) =>
                 \/ /\ cache'[k] = Placeholder
                    /\ \E c \in Clients : Performs(c, "hset") /\ KeyOf(idx[c]) = k
                    /\ ~WorkerSteps
                 \/ /\ Numeric(cache'[k])
                    /\ WorkerWrites(k)
                    /\ ~GatewaySteps
       /\ \A c \in Clients :
             Performs(c, "hset") => cache'[KeyOf(idx[c])] = Placeholder
       /\ \A k \in DOMAIN cache' : WorkerWrites(k) => Numeric(cache'[k])
       /\ ledger' # ledger =>
             /\ \E c \in Clients : Performs(c, "insert") /\ ledger' = Append(ledger, [number |-> idx[c]])
             /\ ~WorkerSteps]_vars

\* Two entries, one final and one at the placeholder, and two rows.
C20_Witness ==
    /\ Cardinality(DOMAIN cache) = 2 /\ Len(ledger) = 2
    /\ \E k \in DOMAIN cache : cache[k] = Placeholder
    /\ \E k \in DOMAIN cache : cache[k] = FinalOf(k) /\ wlast.line = "done"


\* ---- the worker's handlers in time
\* C21 as stated: two handler invocations of the worker are never in progress
\* together: at most one awaits its cache write.
C21_Original == Len(wpending) <= 1

\* A message is delivered behind the ones that wait; the handler that starts takes
\* the message at the head and its HSET queues behind the ones awaited; the HSET
\* that completes is the oldest one awaited and the cache changes by it only.
C21_Step ==
    /\ Len(channel') > Len(channel) =>
          /\ Len(channel') = Len(channel) + 1
          /\ SubSeq(channel', 1, Len(channel)) = channel
    /\ Len(channel') < Len(channel) => channel' = Tail(channel)
    /\ Len(channel') = Len(channel) => channel' = channel
    /\ Len(wpending') > Len(wpending) =>
          /\ WorkerTakes
          /\ Len(wpending') = Len(wpending) + 1
          /\ SubSeq(wpending', 1, Len(wpending)) = wpending
          /\ wpending'[Len(wpending')].key = KeyOf(ParseIntStr(Head(channel).body).num)
    /\ Len(wpending') < Len(wpending) =>
          /\ wpending' = Tail(wpending)
          /\ \/ cache' = cache
             \/ cache' = [k \in DOMAIN cache \cup {Head(wpending).key} |->
                             IF k = Head(wpending).key THEN Head(wpending).value
                             ELSE cache[k]]
    /\ Len(wpending') = Len(wpending) => wpending' = wpending

\* C21: the worker starts its handlers in arrival order, one per message, and
\* their cache writes are sent and complete in arrival order; a handler may start
\* while the cache writes of earlier messages are still awaited.
C21_ArrivalOrder == [][C21_Step]_vars

\* Two handlers await their cache writes, for different indexes.
C21_Witness ==
    Len(wpending) = 2 /\ wpending[1].key # wpending[2].key

\* ---- resubmission
\* The index a cache key stands for.
EntryIndex(k) == ParseIntStr(k).num

\* No two entries of the cache stand for the same index.
C23_State ==
    \A k1, k2 \in DOMAIN cache :
        /\ ~ParseIntStr(k1).nan
        /\ EntryIndex(k1) = EntryIndex(k2) => k1 = k2

\* A write changes the one entry of its index to the value written: the
\* gateway's to the placeholder, also over a final value, the worker's to the
\* value it computed; an entry leaves the placeholder only by the worker's write
\* of the final value.
C23_Step ==
    /\ \A c \in Clients :
          Performs(c, "hset") =>
              cache' = [k \in DOMAIN cache \cup {KeyOf(idx[c])} |->
                           IF k = KeyOf(idx[c]) THEN Placeholder ELSE cache[k]]
    /\ (wpending # <<>> /\ WorkerWrites(Head(wpending).key)) =>
          cache' = [k \in DOMAIN cache \cup {Head(wpending).key} |->
                       IF k = Head(wpending).key THEN Head(wpending).value
                       ELSE cache[k]]
    /\ \A k \in DOMAIN cache :
          (cache[k] = Placeholder /\ cache'[k] # Placeholder) =>
              WorkerWrites(k) /\ cache'[k] = FinalOf(k)

\* C23: the cache holds at most one entry per index, whose value is the one
\* written last; a resubmission puts the placeholder over a cached final value
\* and the entry keeps it until the worker writes the final value again.
C23_OneEntryLastWrite == []C23_State /\ [][C23_Step]_vars

\* A resubmission of 10 has just put the placeholder over the value the worker
\* wrote, and the cache holds this one entry.
C23_Witness ==
    /\ DOMAIN cache = {<<"1", "0">>} /\ cache[<<"1", "0">>] = Placeholder
    /\ wlast.line = "done" /\ wlast.key = <<"1", "0">>
    /\ \E c \in Clients : pc[c] = "publish" /\ idx[c] = 10
    /\ Len(ledger) = 1

\* ---- failing reads
\* Client c's GET is answered 500 in this step.
FailedRead(c) == got'[c].status = 500 /\ got[c].status # 500

\* A read answered 500 was attempted once, by a handler that then is done: no
\* store changed, no other handler and not the worker was disturbed. A GET sent
\* after a 201 whose store operation throws is answered 500. A response given is
\* not revised.
C28_Step ==
    \A c \in Clients :
        /\ FailedRead(c) =>
              /\ UNCHANGED <<cache, ledger, channel, workerVars>>
              /\ pc[c] \in {"idle", "answered"} /\ pc'[c] \in {"read", "listed"}
              /\ got'[c].body = <<>> /\ got'[c].rows = <<>>
              /\ \A d \in Clients \ {c} :
                    pc'[d] = pc[d] /\ got'[d] = got[d] /\ resp'[d] = resp[d]
        /\ (pc[c] = "answered" /\ pc'[c] \in {"read", "listed"} /\ nevents' # nevents) =>
              FailedRead(c)
        /\ pc[c] \in {"read", "listed"} =>
              \/ pc'[c] = pc[c] /\ got'[c] = got[c]
              \/ pc'[c] = "idle"

\* C28: GET /values/all and GET /values/current answer 500 when their store
\* operation fails, after one attempt and without changing any store, and the
\* other handlers of the gateway go on.
C28_FailedReadIs500 == [][C28_Step]_vars

\* One client holds the 500 of a failed GET /values/all, another the 200 of a
\* GET /values/current that shows an entry.
C28_Witness ==
    \E c, d \in Clients :
        /\ pc[c] = "listed" /\ got[c].status = 500
        /\ pc[d] = "read" /\ got[d].status = 200 /\ got[d].body # <<>>

\* ---- the entries of the cache
\* C29: every key of the cache is the canonical decimal text of an integer k of
\* 0..40 and its value is the placeholder or the decimal text of fib(k).
C29_KeysAndValues ==
    \A k \in DOMAIN cache :
        \E n \in 0..MaxIndex :
            /\ k = IntToStr(n)
            /\ cache[k] \in {Placeholder, IntToStr(RecurrenceF(n))}

\* The worker wrote fib(2) under "2" for the foreign message "2a" while the entry
\* of 10 holds the placeholder.
C29_Witness ==
    /\ <<"2">> \in DOMAIN cache /\ cache[<<"2">>] = <<"2">>
    /\ <<"1", "0">> \in DOMAIN cache /\ cache[<<"1", "0">>] = Placeholder
    /\ Len(ledger) = 1


\* ---- duplicate submissions
\* Every submission has published its message and the worker has handled every
\* message delivered to it.
AllProcessed ==
    /\ \A c \in Clients : pc[c] # "publish"
    /\ channel = <<>> /\ wpending = <<>>

C22_State ==
    (worker = "subscribed" /\ AllProcessed) =>
        \A k \in DOMAIN cache : cache[k] = FinalOf(k)

\* Each submission publishes a message of its own and the worker computes for
\* each message it takes, also for an index it has computed before.
C22_Step ==
    /\ \A c \in Clients :
          (Performs(c, "publish") /\ worker = "subscribed") =>
              channel' = Append(channel, [body |-> KeyOf(idx[c]), from |-> "gateway"])
    /\ (WorkerTakes /\ InRange(Head(channel).body)) =>
          /\ Len(wpending') = Len(wpending) + 1
          /\ wpending'[Len(wpending')].key = KeyOf(ParseIntStr(Head(channel).body).num)
          /\ wpending'[Len(wpending')].value = FinalOf(wpending'[Len(wpending')].key)

\* C22: when no store or channel operation fails and the worker is subscribed,
\* submissions of the same index, however their steps and the worker's
\* interleave, each publish a message and are each computed, and once every
\* published message has been processed the cache maps the index to fib(index).
C22_DuplicatesHarmless == []C22_State /\ [][C22_Step]_vars

\* Both clients submitted 10 and were answered 201; the worker has handled both
\* messages and the one entry holds fib(10).
C22_Witness ==
    /\ \A c \in Clients : pc[c] = "answered" /\ resp[c].status = 201 /\ idx[c] = 10
    /\ worker = "subscribed" /\ AllProcessed
    /\ DOMAIN cache = {<<"1", "0">>} /\ cache[<<"1", "0">>] = <<"8", "9">>
    /\ Len(ledger) = 1

\* ---- from the placeholder to the final value
\* The indexes a POST /values of the inputs can be accepted with.
SubmittedIndexes == {parseInt(x).num : x \in PostInputs} \cap 0..MaxIndex

\* No submission is in flight and every message has been handled.
Quiescent ==
    /\ \A c \in Clients : pc[c] \in {"idle", "answered", "read", "listed"}
    /\ channel = <<>> /\ wpending = <<>>

C30_Live ==
    \A i \in SubmittedIndexes :
        (worker = "subscribed" /\ \E c \in Clients : pc[c] = "hset" /\ idx[c] = i)
            ~> (KeyOf(i) \in DOMAIN cache /\ cache[KeyOf(i)] = FinalOf(KeyOf(i)))

C30_Quiet ==
    (worker = "subscribed" /\ Quiescent) =>
        \A k \in DOMAIN cache : cache[k] # Placeholder

\* With no worker subscribed nothing is delivered and every entry keeps the
\* placeholder.
C30_Absent ==
    worker # "subscribed" =>
        /\ channel = <<>> /\ wpending = <<>>
        /\ \A k \in DOMAIN cache : cache[k] = Placeholder

C30_Drop ==
    \A c \in Clients :
        (Performs(c, "publish") /\ worker # "subscribed") => channel' = channel

\* C30: when no store or channel operation fails and the worker subscribed
\* before the publish, an accepted submission of i is eventually followed by a
\* state in which the cache maps i to fib(i), and when no submission is in flight
\* and every message is handled no entry holds the placeholder; a message
\* published while no worker is subscribed is not delivered and the placeholder
\* stays.
C30_EventuallyFinal ==
    C30_Live /\ []C30_Quiet /\ []C30_Absent /\ [][C30_Drop]_vars

\* The submission of 2 was answered 201 and the worker has replaced the
\* placeholder by fib(2).
C30_Witness ==
    /\ worker = "subscribed" /\ Quiescent
    /\ \E c \in Clients : pc[c] = "answered" /\ resp[c].status = 201 /\ idx[c] = 2
    /\ DOMAIN cache = {<<"2">>} /\ cache[<<"2">>] = <<"2">>
    /\ wlast.line = "done"


\* ---- the gateway's shutdown
\* Once gracefulShutdown was called the server accepts no connection; the
\* callback that releases the connections has started only with no request open.
C24_State ==
    /\ closers > 0 => ~listening
    /\ release # "none" => closers > 0 /\ inflight = 0
    /\ proc["gateway"] = "exit0" => release = "done"

\* A call of gracefulShutdown closes no open request; the releases follow one
\* another: ledger, cache, channel, exit.
C24_Step ==
    /\ closers' # closers => closers' = closers + 1 /\ inflight' = inflight /\ ~listening'
    /\ release' # release =>
          /\ inflight = 0 /\ ~listening
          /\ <<release, release'>> \in {<<"none", "pg">>, <<"pg", "redis">>,
                                        <<"redis", "publisher">>, <<"publisher", "done">>}
    /\ (inflight' > inflight) => closers = 0

C24_Exits == (closers > 0) ~> (proc["gateway"] # "up")

\* C24: after SIGTERM or SIGINT the gateway accepts no new connection, lets the
\* open requests finish, only then releases ledger, cache and channel, and in any
\* case exits: the timer armed by the shutdown forces the exit.
C24_GracefulShutdown == []C24_State /\ [][C24_Step]_vars /\ C24_Exits

\* The timer forced the exit while a request was still open.
C24_Witness ==
    /\ proc["gateway"] = "exit1" /\ closers = 1 /\ timer
    /\ inflight > 0 /\ release = "none"

\* ---- process-fatal conditions
\* C25: when the gateway has exited for a reason other than the failure of
\* initializeDatabase, that is after the initial Redis connection failed or after
\* an uncaught error or a signal, gracefulShutdown was called before.
C25_ShutdownBeforeExit ==
    (proc["gateway"] # "up" /\ dbinit # "failed") => closers > 0

\* ---- the reconnect policy gives up
\* C26: once the reconnect strategy of a process gave up, the gateway accepts and
\* answers no request and the worker handles no message.
C26_NoServiceAfterGiveUp ==
    [][/\ conn["gateway"] = "closed" => inflight' = inflight
       /\ conn["worker"] = "closed" => handled' = handled]_vars


\* ---- the origin check
\* The allow-list: the pieces of ALLOWED_ORIGINS between its commas, the two
\* localhost origins when the variable is not set or empty.
AllowList(env) ==
    IF env.set /\ env.s # <<>>
    THEN LET commas == {0, Len(env.s) + 1} \cup {i \in DOMAIN env.s : env.s[i] = ","}
         IN  {SubSeq(env.s, i + 1, j - 1) :
                 <<i, j>> \in {y \in commas \X commas :
                                 y[1] < y[2] /\ \A m \in commas : ~(y[1] < m /\ m < y[2])}}
    ELSE {DefaultOrigins[i] : i \in DOMAIN DefaultOrigins}

\* C27: a request goes on exactly when it has no Origin header or its Origin is
\* in the allow-list; any other request gets the error and reaches no route
\* handler.
C27_OriginCheck ==
    /\ cpc \in {"next", "routed"} <=> (cpc # "none" /\ cpc # "cors" /\ (~corigin.set \/ corigin.s \in AllowList(cenv)))
    /\ cpc \in {"failed", "answered500"} <=>
          (cpc # "none" /\ cpc # "cors" /\ corigin.set /\ corigin.s \notin AllowList(cenv))


\* ---- gateway and worker on the index
\* A message of the gateway that waits for the worker is the canonical text of an
\* integer of 0..40 and names an entry of the cache.
C31_State ==
    \A i \in DOMAIN channel :
        channel[i].from = "gateway" =>
            /\ \E n \in 0..40 : channel[i].body = IntToStr(n)
            /\ channel[i].body \in DOMAIN cache

\* The gateway publishes the key of its placeholder write; the worker discards
\* no message of the gateway and sends its HSET for the key the message names,
\* which the cache holds; no key is removed before the write completes.
C31_Step ==
    /\ \A c \in Clients :
          Performs(c, "publish") =>
              /\ idx[c] \in 0..40 /\ KeyOf(idx[c]) \in DOMAIN cache
              /\ channel' \in {channel,
                               Append(channel, [body |-> KeyOf(idx[c]), from |-> "gateway"])}
    /\ (WorkerTakes /\ Head(channel).from = "gateway") =>
          /\ wlast'.line = "calculating" /\ wlast'.key = Head(channel).body
          /\ Len(wpending') = Len(wpending) + 1
          /\ wpending'[Len(wpending')].key = Head(channel).body
          /\ Head(channel).body \in DOMAIN cache
          /\ wabsorbed' = wabsorbed
    /\ DOMAIN cache \subseteq DOMAIN cache'

\* C31: every message the gateway publishes is the canonical decimal text of an
\* integer of 0..40; the worker never discards it and writes under the key of
\* the gateway's placeholder.
C31_SameIndexSameKey == []C31_State /\ [][C31_Step]_vars

\* The worker has taken the gateway's message for 10 and awaits its write to the
\* entry that holds the placeholder.
C31_Witness ==
    /\ wlast.line = "calculating" /\ wlast.key = <<"1", "0">>
    /\ Len(wpending) = 1 /\ wpending[1].key = <<"1", "0">>
    /\ DOMAIN cache = {<<"1", "0">>} /\ cache[<<"1", "0">>] = Placeholder
    /\ channel = <<>>

\* ---- ledger and cache
\* C32: every number of the ledger is an integer of 0..40 and the cache holds an
\* entry under its key.
C32_LedgerWithinCache ==
    \A n \in LedgerNumbers(ledger) :
        n \in 0..40 /\ KeyOf(n) \in DOMAIN cache

\* The insert of 2 failed after its placeholder write: the cache holds 2 and 10,
\* the ledger 10 only.
C32_Witness ==
    /\ LedgerNumbers(ledger) = {10}
    /\ DOMAIN cache = {<<"2">>, <<"1", "0">>}
    /\ \E c \in Clients : idx[c] = 2 /\ resp[c].status = 500 /\ Len(effects[c]) = 2

\* ---- the reconnect strategy
\* C33: the strategy gives up exactly above 10 retries; up to 10 its delay is
\* retries * 100 ms, at most 1000 ms and below the cap of 3000 ms, and does not
\* decrease; a client asks the strategy with 0, 1, ... and stops at 11.
C33_ReconnectStrategy ==
    /\ \A r \in 0..(2 * 10) :
          /\ reconnectStrategy(r).error <=> r > 10
          /\ r <= 10 =>
                /\ reconnectStrategy(r).delay = (IF r * 100 < 3000 THEN r * 100 ELSE 3000)
                /\ reconnectStrategy(r).delay <= 1000
                /\ reconnectStrategy(r).delay < 3000
                /\ r > 0 => reconnectStrategy(r - 1).delay <= reconnectStrategy(r).delay
    /\ \A p \in Procs :
          /\ retries[p] \in 0..11
          /\ conn[p] = "closed" <=> (retries[p] = 11 /\ conn[p] # "reconnecting" /\ conn[p] # "connecting")
          /\ conn[p] = "ready" => retries[p] = 0

\* The worker lost its connection after startup and its strategy gave up at the
\* twelfth question.
C33_Witness ==
    /\ conn["worker"] = "closed" /\ retries["worker"] = 11 /\ proc["worker"] = "up"
    /\ conn["gateway"] = "ready"

\* ---- order and exit codes of the shutdown
C34_State ==
    /\ release # "none" => ~listening /\ inflight = 0 /\ closers >= 1
    /\ proc["gateway"] = "exit0" => release = "done"
    /\ proc["gateway"] = "exit1" => closers >= 1 /\ release # "done"
    /\ release = "done" => proc["gateway"] = "exit0"

C34_Step ==
    /\ release' # release =>
          <<release, release'>> \in {<<"none", "pg">>, <<"pg", "redis">>,
                                     <<"redis", "publisher">>, <<"publisher", "done">>}
    /\ proc'["gateway"] # proc["gateway"] =>
          /\ proc["gateway"] = "up"
          /\ \/ /\ proc'["gateway"] = "exit0"
                /\ release = "publisher" /\ release' = "done"
             \/ /\ proc'["gateway"] = "exit1" /\ release' = release
                /\ release \in {"pg", "redis", "publisher"} \/ timer

\* C34: the shutdown releases the ledger pool, then the cache client, then the
\* publisher, all after the server closed; the gateway exits 0 only after the
\* three releases succeeded and exits 1 when a release fails or the timer fires,
\* also when gracefulShutdown was called more than once.
C34_OrderAndExitCodes == []C34_State /\ [][C34_Step]_vars

\* gracefulShutdown was called twice and the gateway exited 1 while it awaited
\* the end of the ledger pool.
C34_Witness ==
    /\ closers = 2 /\ proc["gateway"] = "exit1"
    /\ release = "pg" /\ inflight = 0

\* ---- the loop of fib in numbers
\* Iterations of the loop so far.
Iterations == IF fi >= 2 THEN fi - 2 ELSE 0

\* C35: for index in 0..40 the loop ends after max(0, index - 1) iterations and
\* every value of prev, current and the result is a positive integer of at most
\* 165580141, which a 32-bit signed integer holds.
C35_FibWithinRange ==
    /\ 165580141 <= 2147483647
    /\ fpc = "loop" =>
          /\ fprev \in 1..165580141 /\ fcurrent \in 1..165580141
          /\ Iterations <= findex - 1
    /\ fpc = "returned" =>
          /\ fresult \in 1..165580141
          /\ Iterations = (IF findex - 1 > 0 THEN findex - 1 ELSE 0)

\* The loop for index 40 has run 39 times and holds the largest values.
C35_Witness ==
    /\ fpc = "loop" /\ findex = 40 /\ fi = 41
    /\ fprev = 102334155 /\ fcurrent = 165580141


\* ---- the worker's shutdown
C36_State ==
    /\ wstop = "sub" => wpending = <<>>
    /\ wstop \in {"exit0", "exit1"} <=> worker = "stopped"
    /\ worker \in {"subscribed", "stopped"}

\* The releases in their order: the cache client, the subscriber, the exit.
C36_Order ==
    /\ wstop' # wstop =>
          <<wstop, wstop'>> \in {<<"none", "cache">>, <<"cache", "sub">>, <<"sub", "exit0">>,
                                 <<"cache", "exit1">>, <<"sub", "exit1">>}
    /\ (wstop' = "exit1" /\ wstop # "exit1") => nevents' = nevents + 1

\* A message taken while the cache client is closing or closed: the write fails
\* inside the try block and nothing else changes.
C36_Caught ==
    (WorkerTakes /\ wstop \in {"cache", "sub"}) =>
        /\ cache' = cache /\ wpending' = wpending
        /\ worker' = worker /\ wstop' = wstop
        /\ wabsorbed' = wabsorbed + 1
        /\ InRange(Head(channel).body) =>
              wlast' = [line |-> "error", key |-> KeyOf(ParseIntStr(Head(channel).body).num),
                        after |-> wabsorbed]

\* The entry of a gateway's message taken when the cache client is closed.
C36_EntryIsPlaceholder ==
    (WorkerTakes /\ wstop = "sub" /\ Head(channel).from = "gateway") =>
        cache'[Head(channel).body] = Placeholder

C36_EntryIsLeft ==
    (WorkerTakes /\ wstop = "sub" /\ Head(channel).from = "gateway") =>
        /\ cache'[Head(channel).body] = cache[Head(channel).body]
        /\ cache[Head(channel).body] \in {Placeholder, FinalOf(Head(channel).body)}

\* After the signal the worker exits.
C36_Exits == (wstop # "none") ~> (wstop \in {"exit0", "exit1"})

Postable(text) ==
    /\ text # <<>>
    /\ ~ParseIntStr(text).nan
    /\ ParseIntStr(text).den = 1
    /\ ParseIntStr(text).num \in 0..40

C37_State ==
    /\ formPc \in {"editing", "rejected"} => ~formPosted.sent
    /\ formPc = "rejected" => formError # "" /\ ~Postable(formIndex)
    /\ formPc \in {"posting", "failed"} =>
          /\ formPosted.sent /\ Postable(formIndex)
          /\ formPosted.index = ParseIntStr(formIndex).num
    /\ formPosted.sent => formPosted.index \in 0..40

C37_Step ==
    (formPc = "editing" /\ formPc' # "editing") =>
        IF Postable(formIndex)
        THEN /\ formPosted' = [sent |-> TRUE, index |-> ParseIntStr(formIndex).num]
             /\ formError' = ""
        ELSE /\ ~formPosted'.sent
             /\ formError' # ""

\* C37: handleSubmit sends POST /api/values only when the input is not empty and
\* parseInt(input, 10) is a number of 0..40, and posts that integer; for every
\* other input it sets an error message and sends nothing.
C37_FormSendsValidOnly == []C37_State /\ [][C37_Step]_vars

\* The form posted 40 for the input "40" and awaits the reply.
C37_Witness ==
    /\ formPc = "posting" /\ formIndex = <<"4", "0">>
    /\ formPosted = [sent |-> TRUE, index |-> 40] /\ formError = ""

====
